---- MODULE Spec2Model ----
(***************************************************************************)
(* The tracking and counting engine of rose-parking: VehicleTracker of     *)
(* src/tracker.py.  One engine instance; its operations update,            *)
(* reset_count and get_stats are the actions.  Around it: the config table *)
(* of src/database.py, the processing loop and the database worker of      *)
(* src/app.py, and ParkingSimulator of src/simulator.py.                   *)
(***************************************************************************)
EXTENDS Integers, Sequences, FiniteSets, TLC

VARIABLES
    cfg,                 \* the constructor's arguments (self.entry_line, ...)
    next_object_id,      \* self.next_object_id
    objects,             \* self.objects: id -> center <<x, y>>
    disappeared,         \* self.disappeared: id -> frames unmatched
    previous_positions,  \* self.previous_positions: id -> list of centers
    object_sizes,        \* self.object_sizes: id -> list of areas
    counted_ids,         \* self.counted_ids
    entry_count,         \* self.entry_count
    exit_count,          \* self.exit_count
    current_count,       \* self.current_count
    detections,          \* the argument of the last update call
    tracked,             \* the mapping returned by the last update call
    tracked_is_objects,  \* whether that mapping is the dict self.objects itself
    events,              \* the event list returned by the last update call
    calls,               \* update calls made so far
    events_returned,     \* events returned by all update calls so far
    stats,               \* what get_stats returned, when it was the last call
                         \* made (None after an update or a reset_count)
    update_call,         \* the update call of the processing thread, when it
                         \* runs statement by statement: its position and
                         \* its local variables
    reset_pc,            \* the position of the request thread in reset_count
    config_table,        \* the rows of the database's config table: key -> value
    capacity_returned,   \* what get_max_capacity returned, when it was the
                         \* last call made on the database
    last_capacity_set,   \* the argument of the last set_max_capacity call
    loop_error,          \* the exception the except clause of process_frames
                         \* caught in the last frame (None when it caught none)
    event_queue,         \* the items of event_queue, oldest first
    enqueued,            \* the events put on event_queue so far, in order
    parking_updates,     \* parking_update messages process_frames emitted
    worker_pc,           \* the position of db_worker in its loop body
    event_data,          \* the item db_worker took from the queue
    log_calls,           \* the db.log_event calls db_worker made, in order,
                         \* each with the event passed and how it ended
    sim_current_count,   \* ParkingSimulator.current_count
    vehicle_id_counter,  \* ParkingSimulator.vehicle_id_counter
    simulated_event      \* the event _generate_event made last

vars == <<cfg, next_object_id, objects, disappeared, previous_positions,
          object_sizes, counted_ids, entry_count, exit_count, current_count,
          detections, tracked, tracked_is_objects, events, calls,
          events_returned, stats, update_call, reset_pc, config_table,
          capacity_returned, last_capacity_set, loop_error, event_queue,
          enqueued, parking_updates, worker_pc, event_data, log_calls,
          sim_current_count, vehicle_id_counter, simulated_event>>

threads == <<update_call, reset_pc>>

database == <<config_table, capacity_returned, last_capacity_set>>

application == <<loop_error, event_queue, enqueued, parking_updates,
                 worker_pc, event_data, log_calls>>

simulation == <<sim_current_count, vehicle_id_counter, simulated_event>>

engine == <<next_object_id, objects, disappeared, previous_positions,
            object_sizes, counted_ids, entry_count, exit_count, current_count>>

----------------------------------------------------------------------------
(* Bounds of the exploration *)

MaxCalls == 3
MaxPerspCalls == 6
MaxIds == 3
MaxReentryCalls == 5
MaxTestCalls == 4
MaxConcCalls == 3
MaxHistoryCalls == 12
MaxQueued == 4
MaxSimulated == 100

(* Program constants *)

GateDistance == 100
PositionHistory == 10
MinSamples == 3
FullCount == 95

----------------------------------------------------------------------------
(* Small helpers *)

Max(a, b) == IF a >= b THEN a ELSE b

Range(f) == {f[i] : i \in DOMAIN f}

EmptyMap == [i \in {} |-> 0]

Put(f, k, v) == [i \in DOMAIN f \cup {k} |-> IF i = k THEN v ELSE f[i]]

Remove(f, k) == [i \in DOMAIN f \ {k} |-> f[i]]

Tail1(q) == SubSeq(q, 2, Len(q))

\* The keys of a dict whose keys were inserted in increasing order, as a list:
\* ids are registered in increasing order and an update of an existing key
\* keeps its place, so list(self.objects.keys()) is ascending.
RECURSIVE SortedSeq(_)
SortedSeq(S) ==
    IF S = {} THEN <<>>
    ELSE LET m == CHOOSE x \in S : \A y \in S : x <= y
         IN <<m>> \o SortedSeq(S \ {m})

\* A detection's area: detections[col].get('area', 0)
get_area(det) == IF "area" \in DOMAIN det THEN det.area ELSE 0

None == [type |-> "none"]

----------------------------------------------------------------------------
(* The engine's state as one record, threaded through the statements of a  *)
(* call.                                                                   *)

State ==
    [next_object_id |-> next_object_id, objects |-> objects,
     disappeared |-> disappeared, previous_positions |-> previous_positions,
     object_sizes |-> object_sizes, counted_ids |-> counted_ids,
     entry_count |-> entry_count, exit_count |-> exit_count,
     current_count |-> current_count]

\* VehicleTracker.__init__
init(c) ==
    [next_object_id |-> 0, objects |-> EmptyMap, disappeared |-> EmptyMap,
     previous_positions |-> EmptyMap, object_sizes |-> EmptyMap,
     counted_ids |-> {}, entry_count |-> 0, exit_count |-> 0,
     current_count |-> c.initial_count]

\* VehicleTracker._register
register_by_len(s, center) ==
    [s EXCEPT !.objects = Put(@, Cardinality(DOMAIN s.objects), center),
              !.disappeared = Put(@, Cardinality(DOMAIN s.objects), 0),
              !.previous_positions = Put(@, Cardinality(DOMAIN s.objects), <<>>),
              !.next_object_id = @ + 1]

register(s, center) ==
    [s EXCEPT !.objects = Put(@, s.next_object_id, center),
              !.disappeared = Put(@, s.next_object_id, 0),
              !.previous_positions = Put(@, s.next_object_id, <<>>),
              !.next_object_id = @ + 1]

\* VehicleTracker._deregister
deregister_keeps_history(s, object_id) ==
    [s EXCEPT !.objects = Remove(@, object_id),
              !.disappeared = Remove(@, object_id),
              !.object_sizes = Remove(@, object_id),
              !.counted_ids = @ \ {object_id}]

deregister_keeps_flag(s, object_id) ==
    [s EXCEPT !.objects = Remove(@, object_id),
              !.disappeared = Remove(@, object_id),
              !.previous_positions = Remove(@, object_id),
              !.object_sizes = Remove(@, object_id)]

deregister(s, object_id) ==
    [s EXCEPT !.objects = Remove(@, object_id),
              !.disappeared = Remove(@, object_id),
              !.previous_positions = Remove(@, object_id),
              !.object_sizes = Remove(@, object_id),
              !.counted_ids = @ \ {object_id}]

\* VehicleTracker._distance, squared: np.sqrt is monotone and exact enough to
\* keep the order of two integers and the comparison with the gate.
distance2(p1, p2) ==
    (p1[1] - p2[1]) * (p1[1] - p2[1]) + (p1[2] - p2[2]) * (p1[2] - p2[2])

\* "if object_id in self.counted_ids: return None", the first statement of
\* both checks
counted_never(s, object_id) == FALSE

counted(s, object_id) == object_id \in s.counted_ids

\* The three statements of an Entry, the same in both checks
count_entry_both(s, object_id) ==
    [s EXCEPT !.entry_count = @ + 1,
              !.exit_count = @ + 1,
              !.current_count = @ + 1,
              !.counted_ids = @ \cup {object_id}]

count_entry_untallied(s, object_id) ==
    [s EXCEPT !.current_count = @ + 1,
              !.counted_ids = @ \cup {object_id}]

count_entry(s, object_id) ==
    [s EXCEPT !.entry_count = @ + 1,
              !.current_count = @ + 1,
              !.counted_ids = @ \cup {object_id}]

\* The three statements of an Exit, the same in both checks
count_exit_unclamped(s, object_id) ==
    [s EXCEPT !.exit_count = @ + 1,
              !.current_count = @ - 1,
              !.counted_ids = @ \cup {object_id}]

count_exit_uncounted(s, object_id) ==
    [s EXCEPT !.exit_count = @ + 1,
              !.current_count = Max(0, @ - 1)]

count_exit(s, object_id) ==
    [s EXCEPT !.exit_count = @ + 1,
              !.current_count = Max(0, @ - 1),
              !.counted_ids = @ \cup {object_id}]

\* "old_y < self.entry_line and new_y >= self.entry_line"
entry_crossed_strict(c, old_y, new_y) == old_y < c.entry_line /\ new_y > c.entry_line

entry_crossed_upward(c, old_y, new_y) == old_y > c.entry_line /\ new_y <= c.entry_line

entry_crossed(c, old_y, new_y) == old_y < c.entry_line /\ new_y >= c.entry_line

\* "old_y > self.exit_line and new_y <= self.exit_line"
exit_crossed_strict(c, old_y, new_y) == old_y > c.exit_line /\ new_y < c.exit_line

exit_crossed(c, old_y, new_y) == old_y > c.exit_line /\ new_y <= c.exit_line

\* VehicleTracker._check_line_crossing: the state after it and the event it
\* returns (None when it returns None).
check_line_crossing(s, c, object_id, old_center, new_center) ==
    LET old_y == old_center[2]
        new_y == new_center[2]
    IN  IF counted(s, object_id)
        THEN [st |-> s, event |-> None]
        ELSE IF entry_crossed(c, old_y, new_y)
        THEN LET t == count_entry(s, object_id)
             IN  [st |-> t,
                  event |-> [type |-> "entry", vehicle_id |-> object_id,
                             count |-> t.current_count]]
        ELSE IF exit_crossed(c, old_y, new_y)
        THEN LET t == count_exit(s, object_id)
             IN  [st |-> t,
                  event |-> [type |-> "exit", vehicle_id |-> object_id,
                             count |-> t.current_count]]
        ELSE [st |-> s, event |-> None]

----------------------------------------------------------------------------
(* IEEE-754 double arithmetic, as far as _check_size_change uses it.  A    *)
(* double other than 0 is [sign, bits, exp]: bits are the 53 bits of its   *)
(* significand, first bit 1, and its magnitude is 0.b1 b2 ... b53 (binary) *)
(* times 2^exp.  The significand is handled in limbs of 18 bits so that    *)
(* every intermediate number stays below 2^31; operands are below 2^13.    *)

Precision == 53
LimbBits == 18

FloatZero == [sign |-> 0, bits |-> <<>>, exp |-> 0]

\* the number of binary digits of n >= 0 (0 for 0)
BitLength(n) == CHOOSE k \in 0..31 : n < 2^k /\ (k = 0 \/ n >= 2^(k - 1))

\* n >= 0 in w binary digits, most significant first
FixedBits(n, w) == [i \in 1..w |-> (n \div 2^(w - i)) % 2]

\* the binary digits of n >= 0, most significant first (<<>> for 0)
IntBits(n) == FixedBits(n, BitLength(n))

\* the number a bit string of at most 30 digits writes
RECURSIVE BitsInt(_)
BitsInt(b) ==
    IF Len(b) = 0 THEN 0
    ELSE IF Len(b) = 1 THEN b[1]
    ELSE LET h == Len(b) \div 2
         IN  BitsInt(SubSeq(b, 1, h)) * 2^(Len(b) - h) + BitsInt(SubSeq(b, h + 1, Len(b)))

AnyOne(b) == \E i \in DOMAIN b : b[i] = 1

\* b + 1 on a bit string of fixed length; carry is 1 when it overflowed
IncBits(b) ==
    IF \A i \in DOMAIN b : b[i] = 1
    THEN [bits |-> [i \in DOMAIN b |-> 0], carry |-> 1]
    ELSE LET z == CHOOSE i \in DOMAIN b :
                      b[i] = 0 /\ \A j \in DOMAIN b : j > i => b[j] = 1
         IN  [bits |-> [i \in DOMAIN b |-> IF i < z THEN b[i]
                                           ELSE IF i = z THEN 1 ELSE 0],
              carry |-> 0]

\* Rounding to nearest, ties to even: whether the digits kept are rounded up,
\* given the digits dropped (rest), the last digit kept and whether nonzero
\* digits follow rest
RoundsUp(rest, last, sticky) ==
    /\ rest # <<>>
    /\ rest[1] = 1
    /\ (sticky \/ AnyOne(Tail1(rest)) \/ last = 1)

\* the double with the significand kept + 1
Carried(sign, inc, exp) ==
    IF inc.carry = 0 THEN [sign |-> sign, bits |-> inc.bits, exp |-> exp]
    ELSE [sign |-> sign, bits |-> <<1>> \o SubSeq(inc.bits, 1, Precision - 1),
          exp |-> exp + 1]

\* Round a bit string of at least 53 bits (first bit 1), whose binary point
\* lies after its first exp bits, to 53 bits: to nearest, ties to even.
\* sticky tells whether nonzero digits follow the string.
RoundBits(sign, b, exp, sticky) ==
    IF RoundsUp(SubSeq(b, Precision + 1, Len(b)), b[Precision], sticky)
    THEN Carried(sign, IncBits(SubSeq(b, 1, Precision)), exp)
    ELSE [sign |-> sign, bits |-> SubSeq(b, 1, Precision), exp |-> exp]

\* One limb of long division: the next 18 binary digits of r / d and the
\* remainder after them (0 <= r < d)
DivLimb(r, d) ==
    [bits |-> FixedBits((r * 2^LimbBits) \div d, LimbBits),
     rem |-> (r * 2^LimbBits) % d]

\* the digits q found so far, one limb longer
DivNext(q, d) ==
    [bits |-> q.bits \o DivLimb(q.rem, d).bits, rem |-> DivLimb(q.rem, d).rem]

\* the digits of a quotient, whose integer part has int_len digits, from
\* their first 1 on, rounded
Normalized(sign, q, int_len) ==
    LET lead == CHOOSE i \in DOMAIN q.bits :
                    q.bits[i] = 1 /\ \A j \in 1..(i - 1) : q.bits[j] = 0
    IN  RoundBits(sign, SubSeq(q.bits, lead, Len(q.bits)),
                  int_len - (lead - 1), q.rem # 0)

\* the double nearest to sign * a / d for a > 0
Quotient(sign, a, d) ==
    Normalized(sign,
               DivNext(DivNext(DivNext(DivNext(
                   [bits |-> IntBits(a \div d), rem |-> a % d], d), d), d), d),
               BitLength(a \div d))

\* int / int of Python: the double nearest to n / d (0 < d < 2^13).  The
\* quotient has at most 13 zeros after the binary point, so the integer part
\* and four limbs of the fraction hold the 54 digits that rounding needs.
float_div(n, d) ==
    IF n = 0 THEN FloatZero
    ELSE IF n < 0 THEN Quotient(-1, -n, d)
    ELSE Quotient(1, n, d)

\* the digits of hi * 2^(18 + w) + mid * 2^w + lo, for lo < 2^w
Carry2(lo, mid, hi, w) ==
    IntBits(hi + mid \div 2^LimbBits)
        \o FixedBits(mid % 2^LimbBits, LimbBits) \o FixedBits(lo, w)

Carry3(lo, mid, hi, w) == Carry2(lo % 2^w, mid + lo \div 2^w, hi, w)

\* b * k on a bit string of 53 digits, exactly, for 0 < k < 2^12: limb by
\* limb from the least significant one
MulBits(b, k) ==
    Carry3(BitsInt(SubSeq(b, 2 * LimbBits + 1, Len(b))) * k,
           BitsInt(SubSeq(b, LimbBits + 1, 2 * LimbBits)) * k,
           BitsInt(SubSeq(b, 1, LimbBits)) * k,
           Len(b) - 2 * LimbBits)

RoundProduct(sign, prod, exp) ==
    RoundBits(sign, prod, exp + Len(prod) - Precision, FALSE)

\* float * int of Python for a small integer k > 0: the double nearest to the
\* product
float_mul(f, k) ==
    IF f.sign = 0 THEN FloatZero
    ELSE RoundProduct(f.sign, MulBits(f.bits, k), f.exp)

\* the integer part of |f| and whether |f| has a fractional part
IntPart(f) ==
    IF f.sign = 0 \/ f.exp <= 0 THEN 0 ELSE BitsInt(SubSeq(f.bits, 1, f.exp))

HasFraction(f) ==
    /\ f.sign # 0
    /\ \/ f.exp <= 0
       \/ AnyOne(SubSeq(f.bits, f.exp + 1, Len(f.bits)))

\* |f| > t and |f| < t for an integer t >= 0
MagnitudeGt(f, t) == IntPart(f) > t \/ (IntPart(f) = t /\ HasFraction(f))

MagnitudeLt(f, t) == f.sign = 0 \/ IntPart(f) < t

\* f > t and f < t for a double f and an integer t
float_gt(f, t) ==
    IF t >= 0 THEN f.sign = 1 /\ MagnitudeGt(f, t)
    ELSE f.sign >= 0 \/ MagnitudeLt(f, -t)

float_lt(f, t) ==
    IF t <= 0 THEN f.sign = -1 /\ MagnitudeGt(f, -t)
    ELSE f.sign <= 0 \/ MagnitudeLt(f, t)

\* whole, or whole + 1 when the binary fraction frac after it is more than
\* a half, or is a half and whole is odd
TiesToEven(whole, frac) ==
    IF /\ frac # <<>>
       /\ frac[1] = 1
       /\ (AnyOne(Tail1(frac)) \/ whole % 2 = 1)
    THEN whole + 1 ELSE whole

\* the integer nearest to the number whose digits are prod, with the binary
\* point after the first point digits
NearestInt(prod, point) ==
    TiesToEven(IF point <= 0 THEN 0 ELSE BitsInt(SubSeq(prod, 1, point)),
               IF point < 0 THEN <<0>> \o prod
               ELSE SubSeq(prod, point + 1, Len(prod)))

RoundTenths(prod, exp) == NearestInt(prod, exp + Len(prod) - Precision)

\* round(f, 1) of Python, in tenths: the integer nearest to 10 * f, ties to
\* even
round1(f) ==
    IF f.sign = 0 THEN 0
    ELSE f.sign * RoundTenths(MulBits(f.bits, 10), f.exp)

----------------------------------------------------------------------------
\* "size_change_pct = (last_size - first_size) / first_size * 100", the
\* double that Python computes: the quotient is rounded, then the product
percent_change(first_size, last_size) ==
    float_mul(float_div(last_size - first_size, first_size), 100)

\* "size_change_pct > self.size_change_threshold_pct and
\*  last_size > self.size_threshold_entry"
size_entry_inclusive(c, pct, last_size) ==
    /\ float_gt(pct, c.size_change_threshold_pct)
    /\ last_size >= c.size_threshold_entry

size_entry_no_floor(c, pct, last_size) ==
    float_gt(pct, c.size_change_threshold_pct)

size_entry(c, pct, last_size) ==
    /\ float_gt(pct, c.size_change_threshold_pct)
    /\ last_size > c.size_threshold_entry

\* "size_change_pct < -self.size_change_threshold_pct and
\*  last_size < self.size_threshold_exit"
size_exit(c, pct, last_size) ==
    /\ float_lt(pct, -c.size_change_threshold_pct)
    /\ last_size < c.size_threshold_exit

\* "self.object_sizes[object_id].append(area)" and the pop(0) that keeps the
\* last size_trend_frames
push_size_unbounded(sizes, area, frames) == Append(sizes, area)

push_size(sizes, area, frames) ==
    IF Len(Append(sizes, area)) > frames
    THEN Tail1(Append(sizes, area))
    ELSE Append(sizes, area)

\* VehicleTracker._check_size_change: the state after it and the event it
\* returns.  size_change_pct of the event is in tenths of a percent.
check_size_change(s, c, object_id, area) ==
    IF counted(s, object_id)
    THEN [st |-> s, event |-> None]
    ELSE LET old == IF object_id \in DOMAIN s.object_sizes
                    THEN s.object_sizes[object_id] ELSE <<>>
             sizes == push_size(old, area, c.size_trend_frames)
             s1 == [s EXCEPT !.object_sizes = Put(@, object_id, sizes)]
         IN  IF Len(sizes) < MinSamples
             THEN [st |-> s1, event |-> None]
             ELSE LET first_size == sizes[1]
                      last_size == sizes[Len(sizes)]
                  IN  IF first_size = 0
                      THEN [st |-> s1, event |-> None]
                      ELSE LET size_change_pct == percent_change(first_size, last_size)
                           IN  IF size_entry(c, size_change_pct, last_size)
                               THEN LET t == count_entry(s1, object_id)
                                    IN  [st |-> t,
                                         event |-> [type |-> "entry",
                                                    vehicle_id |-> object_id,
                                                    count |-> t.current_count,
                                                    size |-> last_size,
                                                    size_change_pct |-> round1(size_change_pct)]]
                               ELSE IF size_exit(c, size_change_pct, last_size)
                               THEN LET t == count_exit(s1, object_id)
                                    IN  [st |-> t,
                                         event |-> [type |-> "exit",
                                                    vehicle_id |-> object_id,
                                                    count |-> t.current_count,
                                                    size |-> last_size,
                                                    size_change_pct |-> round1(size_change_pct)]]
                               ELSE [st |-> s1, event |-> None]

\* VehicleTracker._check_event
check_event_by_size(s, c, object_id, old_center, new_center, area) ==
    check_size_change(s, c, object_id, area)

check_event(s, c, object_id, old_center, new_center, area) ==
    IF c.tracking_mode = "perspective_3d"
    THEN check_size_change(s, c, object_id, area)
    ELSE check_line_crossing(s, c, object_id, old_center, new_center)

----------------------------------------------------------------------------
(* update *)

\* The distance matrix D: row i is the i-th live track, column j the j-th
\* detection of the batch.
DistMatrix(object_centers, input_centers) ==
    [i \in 1..Len(object_centers) |->
        [j \in 1..Len(input_centers) |->
            distance2(object_centers[i], input_centers[j])]]

\* D.min(axis=1)[i]
RowMin(D, i) ==
    CHOOSE m \in Range(D[i]) : \A j \in DOMAIN D[i] : m <= D[i][j]

\* D.argmin(axis=1)[i]: the first column that holds the row's minimum
ArgMin(D, i) ==
    CHOOSE j \in DOMAIN D[i] :
        /\ D[i][j] = RowMin(D, i)
        /\ \A k \in DOMAIN D[i] : D[i][k] = RowMin(D, i) => j <= k

\* D.min(axis=1).argsort(): the rows in an order in which their minima do not
\* decrease.  numpy's default sort is not stable, so rows with equal minima
\* come in an order the build decides: every such order is possible.
RowOrders_unsorted(D) ==
    {r \in [DOMAIN D -> DOMAIN D] : \A a, b \in DOMAIN D : a # b => r[a] # r[b]}

RowOrders(D) ==
    LET m == [i \in DOMAIN D |-> RowMin(D, i)]
    IN  {r \in [DOMAIN D -> DOMAIN D] :
            /\ \A a, b \in DOMAIN D : a # b => r[a] # r[b]
            /\ \A a, b \in DOMAIN D : a < b => m[r[a]] <= m[r[b]]}

\* "if row in used_rows or col in used_cols: continue"
taken_rows_only(L, row, col) == row \in L.used_rows

taken(L, row, col) == row \in L.used_rows \/ col \in L.used_cols

\* "if D[row, col] > 100: continue", on the squared distance
beyond_gate_inclusive(d2) == d2 >= GateDistance * GateDistance

beyond_gate(d2) == d2 > GateDistance * GateDistance

\* "self.previous_positions[object_id].append(old_center)" and the pop(0)
\* that keeps the last 10
push_position_unbounded(hist, old_center) == Append(hist, old_center)

push_position(hist, old_center) ==
    IF Len(Append(hist, old_center)) > PositionHistory
    THEN Tail1(Append(hist, old_center))
    ELSE Append(hist, old_center)

\* "if event: events.append(event)"
append_event_twice(evs, event) ==
    IF event # None THEN Append(Append(evs, event), event) ELSE evs

append_event(evs, event) ==
    IF event # None THEN Append(evs, event) ELSE evs

\* One turn of the loop "for row, col in zip(rows, cols)".  L holds the
\* engine state, the events so far and the rows and columns used so far.
match_step(L, c, row, col, object_ids, D, dets) ==
    IF taken(L, row, col)
    THEN L
    ELSE IF beyond_gate(D[row][col])
    THEN L
    ELSE LET object_id == object_ids[row]
             old_center == L.st.objects[object_id]
             new_center == dets[col].center
             new_area == get_area(dets[col])
             hist == IF object_id \in DOMAIN L.st.previous_positions
                     THEN L.st.previous_positions[object_id] ELSE <<>>
             hist2 == push_position(hist, old_center)
             s1 == [L.st EXCEPT !.objects[object_id] = new_center,
                                !.disappeared[object_id] = 0,
                                !.previous_positions = Put(@, object_id, hist2)]
             r == check_event(s1, c, object_id, old_center, new_center, new_area)
         IN  [st |-> r.st,
              events |-> append_event(L.events, r.event),
              used_rows |-> L.used_rows \cup {row},
              used_cols |-> L.used_cols \cup {col}]

RECURSIVE match_loop(_, _, _, _, _, _, _)
match_loop(L, c, rows, k, object_ids, D, dets) ==
    IF k > Len(rows) THEN L
    ELSE match_loop(match_step(L, c, rows[k], ArgMin(D, rows[k]), object_ids, D, dets),
                    c, rows, k + 1, object_ids, D, dets)

\* self.disappeared[object_id] += 1, and _deregister past max_disappeared
age_inclusive(s, c, object_id) ==
    LET s1 == [s EXCEPT !.disappeared[object_id] = @ + 1]
    IN  IF s1.disappeared[object_id] >= c.max_disappeared
        THEN deregister(s1, object_id) ELSE s1

age_none(s, c, object_id) == s

age_late(s, c, object_id) ==
    LET s1 == [s EXCEPT !.disappeared[object_id] = @ + 1]
    IN  IF s1.disappeared[object_id] > c.max_disappeared + 1
        THEN deregister(s1, object_id) ELSE s1

age(s, c, object_id) ==
    LET s1 == [s EXCEPT !.disappeared[object_id] = @ + 1]
    IN  IF s1.disappeared[object_id] > c.max_disappeared
        THEN deregister(s1, object_id) ELSE s1

age_all_first(s, c, ids) ==
    IF ids = <<>> THEN s ELSE age(s, c, Head(ids))

RECURSIVE age_all(_, _, _)
age_all(s, c, ids) ==
    IF ids = <<>> THEN s
    ELSE age_all(age(s, c, Head(ids)), c, Tail(ids))

\* "for col in unused_cols: self._register(input_centers[col])": a set of
\* small integers is iterated in ascending order.
register_all_first(s, dets, cols) ==
    IF cols = <<>> THEN s ELSE register(s, dets[Head(cols)].center)

RECURSIVE register_all(_, _, _)
register_all(s, dets, cols) ==
    IF cols = <<>> THEN s
    ELSE register_all(register(s, dets[Head(cols)].center), dets, Tail(cols))

\* self.objects.copy(): a new dict that holds the items of self.objects
objects_copy_same_dict(d) == [items |-> d, is_objects |-> TRUE]

objects_copy(d) == [items |-> d, is_objects |-> FALSE]

\* VehicleTracker.update: the state after the call and the two values it
\* returns.  rows is the order D.min(axis=1).argsort() gave.
update(s, c, dets, rows) ==
    IF Len(dets) = 0
    THEN LET s1 == age_all(s, c, SortedSeq(DOMAIN s.disappeared))
         IN  [st |-> s1, tracked |-> objects_copy(s1.objects), events |-> <<>>]
    ELSE IF Cardinality(DOMAIN s.objects) = 0
    THEN LET s1 == register_all(s, dets, SortedSeq(DOMAIN dets))
         IN  [st |-> s1, tracked |-> objects_copy(s1.objects), events |-> <<>>]
    ELSE LET object_ids == SortedSeq(DOMAIN s.objects)
             object_centers == [i \in DOMAIN object_ids |-> s.objects[object_ids[i]]]
             input_centers == [j \in DOMAIN dets |-> dets[j].center]
             D == DistMatrix(object_centers, input_centers)
             L0 == [st |-> s, events |-> <<>>, used_rows |-> {}, used_cols |-> {}]
             L == match_loop(L0, c, rows, 1, object_ids, D, dets)
             unused_rows == DOMAIN object_centers \ L.used_rows
             s1 == age_all(L.st, c, [i \in 1..Cardinality(unused_rows) |->
                                       object_ids[SortedSeq(unused_rows)[i]]])
             unused_cols == DOMAIN input_centers \ L.used_cols
             s2 == register_all(s1, dets, SortedSeq(unused_cols))
         IN  [st |-> s2, tracked |-> objects_copy(s2.objects), events |-> L.events]

\* The orders argsort can give for this call ({<<>>} when no matrix is built)
Orders(s, dets) ==
    IF Len(dets) = 0 \/ Cardinality(DOMAIN s.objects) = 0 THEN {<<>>}
    ELSE LET object_ids == SortedSeq(DOMAIN s.objects)
         IN  RowOrders(DistMatrix([i \in DOMAIN object_ids |-> s.objects[object_ids[i]]],
                                  [j \in DOMAIN dets |-> dets[j].center]))

\* VehicleTracker.reset_count
reset_count_flags_only(s) ==
    [s EXCEPT !.counted_ids = {}]

reset_count_keeps_flags(s) ==
    [s EXCEPT !.current_count = 0]

reset_count_totals(s) ==
    [s EXCEPT !.current_count = 0, !.counted_ids = {},
              !.entry_count = 0, !.exit_count = 0]

reset_count(s) ==
    [s EXCEPT !.current_count = 0, !.counted_ids = {}]

\* VehicleTracker.get_stats: the dict it returns; it assigns nothing
get_stats_registered(s) ==
    [current_count |-> s.current_count,
     total_entries |-> s.entry_count,
     total_exits |-> s.exit_count,
     tracked_objects |-> s.next_object_id]

get_stats(s) ==
    [current_count |-> s.current_count,
     total_entries |-> s.entry_count,
     total_exits |-> s.exit_count,
     tracked_objects |-> Cardinality(DOMAIN s.objects)]

----------------------------------------------------------------------------
(* The configuration table of src/database.py.  A value is TEXT: a string  *)
(* is a sequence of characters here, so that str and int are the           *)
(* conversions Python makes.  Every method opens its own connection and    *)
(* holds self.lock from its first statement to its last.                   *)

Digits == <<"0", "1", "2", "3", "4", "5", "6", "7", "8", "9">>

\* str(n) for an int n
RECURSIVE str_nat(_)
str_nat(n) ==
    IF n < 10 THEN <<Digits[n + 1]>>
    ELSE Append(str_nat(n \div 10), Digits[(n % 10) + 1])

str_int(n) == IF n < 0 THEN <<"-">> \o str_nat(-n) ELSE str_nat(n)

\* int(s) for a str s of an optional sign and decimal digits; ValueError for
\* a string without digits or with another character
RECURSIVE int_digits(_)
int_digits(s) ==
    IF s = <<>> THEN 0
    ELSE 10 * int_digits(SubSeq(s, 1, Len(s) - 1))
            + (CHOOSE d \in 0..9 : Digits[d + 1] = s[Len(s)])

int_str(s) ==
    IF s # <<>> /\ s[1] \in {"-", "+"}
    THEN IF Len(s) > 1 /\ \A i \in 2..Len(s) : s[i] \in Range(Digits)
         THEN [type |-> "returned",
               value |-> IF s[1] = "-" THEN -int_digits(Tail(s))
                         ELSE int_digits(Tail(s))]
         ELSE [type |-> "ValueError"]
    ELSE IF s # <<>> /\ \A i \in 1..Len(s) : s[i] \in Range(Digits)
    THEN [type |-> "returned", value |-> int_digits(s)]
    ELSE [type |-> "ValueError"]

\* Database._init_db, the config table: the default row when there is none
init_db(table) ==
    IF "max_capacity" \in DOMAIN table THEN table
    ELSE Put(table, "max_capacity", <<"1", "0", "0">>)

\* Database.get_config: the value of the row, None when there is no row
get_config(table, key) ==
    IF key \in DOMAIN table THEN [type |-> "str", value |-> table[key]]
    ELSE None

\* Database.set_config: INSERT OR REPLACE
set_config_keep_existing(table, key, value) ==
    IF key \in DOMAIN table THEN table ELSE Put(table, key, value)

set_config(table, key, value) == Put(table, key, value)

\* Database.get_max_capacity: "int(value) if value else 100"
get_max_capacity(table) ==
    IF get_config(table, "max_capacity") = None
    THEN [type |-> "returned", value |-> 100]
    ELSE IF get_config(table, "max_capacity").value = <<>>
    THEN [type |-> "returned", value |-> 100]
    ELSE int_str(get_config(table, "max_capacity").value)

\* Database.set_max_capacity
set_max_capacity(table, capacity) ==
    set_config(table, "max_capacity", str_int(capacity))

\* Database(db_path) on the file that exists
OpenDatabase ==
    /\ config_table' = init_db(config_table)
    /\ capacity_returned' = None
    /\ UNCHANGED <<cfg, engine, detections, tracked, tracked_is_objects, events,
                   calls, events_returned, stats, threads, last_capacity_set,
                   application, simulation>>

SetMaxCapacity(capacity) ==
    /\ config_table' = set_max_capacity(config_table, capacity)
    /\ last_capacity_set' = [type |-> "set", capacity |-> capacity]
    /\ capacity_returned' = None
    /\ UNCHANGED <<cfg, engine, detections, tracked, tracked_is_objects, events,
                   calls, events_returned, stats, threads, application,
                   simulation>>

GetMaxCapacity ==
    /\ capacity_returned' = get_max_capacity(config_table)
    /\ UNCHANGED <<cfg, engine, detections, tracked, tracked_is_objects, events,
                   calls, events_returned, stats, threads, config_table,
                   last_capacity_set, application, simulation>>

----------------------------------------------------------------------------
(* The processing loop and the database worker of src/app.py *)

\* The attributes the tracker object has: the ones VehicleTracker.__init__
\* assigns.  No statement of the repository assigns another one, and the
\* class defines no __getattr__.
TrackerAttributes ==
    {"entry_line", "exit_line", "max_disappeared", "tracking_mode",
     "size_threshold_entry", "size_threshold_exit", "size_trend_frames",
     "size_change_threshold_pct", "next_object_id", "objects", "disappeared",
     "previous_positions", "object_sizes", "counted_ids", "entry_count",
     "exit_count", "current_count"}

\* annotate_frame: how the call ends.  The drawing statements work on the
\* frame copy; the info overlay reads tracker.frame_count ("if tracker" is
\* true of the tracker object), and reading an attribute an object does not
\* have raises AttributeError.
annotate_frame ==
    IF "frame_count" \in TrackerAttributes
    THEN [type |-> "returned"]
    ELSE [type |-> "AttributeError"]

\* The except clause of db_worker (print, sleep): what it leaves on the queue
after_log_error_requeue(queue, item) == Append(queue, item)

after_log_error(queue, item) == queue

----------------------------------------------------------------------------
(* ParkingSimulator of src/simulator.py *)

\* The event type _simulation_loop decides on; below tells whether
\* random.random() came out below entry_probability
choose_event_type_unforced(count, below) ==
    IF count = 0 THEN "entry"
    ELSE IF below THEN "entry" ELSE "exit"

choose_event_type(count, below) ==
    LET event_type == IF count = 0 THEN "entry"
                      ELSE IF count > FullCount THEN "exit"
                      ELSE IF below THEN "entry" ELSE "exit"
    IN  IF event_type = "exit" /\ count <= 0 THEN "entry" ELSE event_type

----------------------------------------------------------------------------
(* Actions *)

Install(s) ==
    /\ next_object_id' = s.next_object_id
    /\ objects' = s.objects
    /\ disappeared' = s.disappeared
    /\ previous_positions' = s.previous_positions
    /\ object_sizes' = s.object_sizes
    /\ counted_ids' = s.counted_ids
    /\ entry_count' = s.entry_count
    /\ exit_count' = s.exit_count
    /\ current_count' = s.current_count

\* tracker.update(detections), whoever calls it
tracker_update(dets) ==
    /\ \E rows \in Orders(State, dets) :
          \E r \in {update(State, cfg, dets, rows)} :
              /\ r.st.next_object_id <= MaxIds
              /\ Install(r.st)
              /\ tracked' = r.tracked.items
              /\ tracked_is_objects' = r.tracked.is_objects
              /\ events' = r.events
              /\ events_returned' = events_returned + Len(r.events)
    /\ detections' = dets
    /\ calls' = calls + 1
    /\ stats' = None
    /\ UNCHANGED <<cfg, threads>>
    /\ UNCHANGED <<database, simulation>>

Update(dets) ==
    /\ tracker_update(dets)
    /\ UNCHANGED application

ResetCount ==
    /\ Install(reset_count(State))
    /\ stats' = None
    /\ UNCHANGED <<cfg, detections, tracked, tracked_is_objects, events, calls,
                   events_returned, threads>>
    /\ UNCHANGED <<database, application, simulation>>

GetStats ==
    /\ stats' = get_stats(State)
    /\ UNCHANGED <<cfg, engine, detections, tracked, tracked_is_objects, events,
                   calls, events_returned, threads>>
    /\ UNCHANGED <<database, application, simulation>>

\* No update call is running statement by statement
NoCall ==
    [pc |-> "idle", start |-> None, dets |-> <<>>, rows |-> <<>>, k |-> 0,
     used_rows |-> {}, used_cols |-> {}, events |-> <<>>, aging |-> <<>>,
     object_id |-> -1, loaded |-> 0, kind |-> "none", reset_ran |-> FALSE,
     reset_at_start |-> "idle", outcome |-> "none"]

\* What a caller can do to the mapping update returned to it: del on a key,
\* an assignment to a key it holds or to a new one
CallerMutations(m) ==
    {Remove(m, k) : k \in DOMAIN m}
        \cup {Put(m, k, <<0, 0>>) : k \in DOMAIN m \cup {next_object_id}}

\* The caller changes the mapping the last update call returned, as it was
\* returned.  When that mapping is the dict self.objects, the engine's
\* tracks change with it.
CallerMutates ==
    /\ calls > 0
    /\ tracked = objects
    /\ \E m \in CallerMutations(tracked) :
          /\ tracked' = m
          /\ objects' = IF tracked_is_objects THEN m ELSE objects
    /\ UNCHANGED <<cfg, next_object_id, disappeared, previous_positions,
                   object_sizes, counted_ids, entry_count, exit_count,
                   current_count, detections, tracked_is_objects, events, calls,
                   events_returned, stats, threads>>
    /\ UNCHANGED <<database, application, simulation>>

Construct(c) ==
    /\ cfg = c
    /\ next_object_id = init(c).next_object_id
    /\ objects = init(c).objects
    /\ disappeared = init(c).disappeared
    /\ previous_positions = init(c).previous_positions
    /\ object_sizes = init(c).object_sizes
    /\ counted_ids = init(c).counted_ids
    /\ entry_count = init(c).entry_count
    /\ exit_count = init(c).exit_count
    /\ current_count = init(c).current_count
    /\ detections = <<>>
    /\ tracked = EmptyMap
    /\ tracked_is_objects = FALSE
    /\ events = <<>>
    /\ calls = 0
    /\ events_returned = 0
    /\ stats = None
    /\ update_call = NoCall
    /\ reset_pc = "idle"
    /\ config_table = init_db(EmptyMap)
    /\ capacity_returned = None
    /\ last_capacity_set = None
    /\ loop_error = None
    /\ event_queue = <<>>
    /\ enqueued = <<>>
    /\ parking_updates = 0
    /\ worker_pc = "get"
    /\ event_data = None
    /\ log_calls = <<>>
    /\ sim_current_count = 0
    /\ vehicle_id_counter = 1000
    /\ simulated_event = None

\* One turn of the loop of process_frames on a frame the camera delivered
\* (without a frame the turn sleeps and changes nothing): detect, update,
\* annotate_frame, then the loop over the events, or the except clause when
\* a statement raised.
ProcessFrame(dets) ==
    /\ tracker_update(dets)
    /\ IF annotate_frame.type = "returned"
       THEN /\ event_queue' = event_queue \o events'
            /\ enqueued' = enqueued \o events'
            /\ parking_updates' = parking_updates + Len(events')
            /\ loop_error' = None
       ELSE /\ loop_error' = annotate_frame
            /\ UNCHANGED <<event_queue, enqueued, parking_updates>>
    /\ UNCHANGED <<worker_pc, event_data, log_calls>>

\* event_queue.put(event)
QueuePut(event) ==
    /\ event_queue' = Append(event_queue, event)
    /\ enqueued' = Append(enqueued, event)
    /\ UNCHANGED <<cfg, engine, detections, tracked, tracked_is_objects, events,
                   calls, events_returned, stats, threads, database, simulation,
                   loop_error, parking_updates, worker_pc, event_data,
                   log_calls>>

\* db_worker: event_queue.get(timeout=1.0) hands over the oldest item (on an
\* empty queue it raises queue.Empty after the timeout and the turn ends
\* with nothing changed)
WorkerGet ==
    /\ worker_pc = "get"
    /\ event_queue # <<>>
    /\ event_data' = Head(event_queue)
    /\ event_queue' = Tail(event_queue)
    /\ worker_pc' = "log"
    /\ UNCHANGED <<cfg, engine, detections, tracked, tracked_is_objects, events,
                   calls, events_returned, stats, threads, database, simulation,
                   loop_error, enqueued, parking_updates, log_calls>>

\* db_worker: db.log_event(...) on the item taken, which returns or raises
\* (the insert is I/O); then task_done, or the except clause
WorkerLog(outcome) ==
    /\ worker_pc = "log"
    /\ log_calls' = Append(log_calls, [event |-> event_data, outcome |-> outcome])
    /\ event_queue' = IF outcome = "raised"
                      THEN after_log_error(event_queue, event_data)
                      ELSE event_queue
    /\ worker_pc' = "get"
    /\ UNCHANGED <<cfg, engine, detections, tracked, tracked_is_objects, events,
                   calls, events_returned, stats, threads, database, simulation,
                   loop_error, enqueued, parking_updates, event_data>>

\* One turn of ParkingSimulator._simulation_loop after its sleep: the
\* decision on the event type and _generate_event (the callback is not set,
\* and an exception of a callback is caught)
SimulationLoop(below) ==
    /\ vehicle_id_counter < 1000 + MaxSimulated
    /\ \E event_type \in {choose_event_type(sim_current_count, below)} :
          /\ sim_current_count' =
                IF event_type = "entry" THEN sim_current_count + 1
                ELSE Max(0, sim_current_count - 1)
          /\ simulated_event' =
                [type |-> event_type, vehicle_id |-> vehicle_id_counter,
                 count |-> sim_current_count', simulated |-> TRUE]
    /\ vehicle_id_counter' = vehicle_id_counter + 1
    /\ UNCHANGED <<cfg, engine, detections, tracked, tracked_is_objects, events,
                   calls, events_returned, stats, threads, database,
                   application>>

----------------------------------------------------------------------------
(* update and reset_count statement by statement, for an engine in         *)
(* line_crossing mode used by two threads: the processing thread runs      *)
(* update, a request thread runs reset_count, and no lock is taken.  A     *)
(* step of the processing thread holds at most one access to what          *)
(* reset_count writes (current_count and counted_ids), or two that the     *)
(* statements of reset_count cannot separate; the statements between two   *)
(* such accesses touch nothing the other thread does.                      *)

\* the distance matrix of the running call
CallMatrix ==
    DistMatrix([i \in DOMAIN SortedSeq(DOMAIN update_call.start.objects) |->
                   update_call.start.objects[
                       SortedSeq(DOMAIN update_call.start.objects)[i]]],
               [j \in DOMAIN update_call.dets |-> update_call.dets[j].center])

\* the row and the column of the current turn of the matching loop
CallRow == update_call.rows[update_call.k]

CallCol == ArgMin(CallMatrix, CallRow)

\* the track of row i: object_ids[i]
CallId(i) == SortedSeq(DOMAIN update_call.start.objects)[i]

\* "self.current_count += 1" and "self.current_count = max(0,
\* self.current_count - 1)": the value stored, from the value loaded
stored_count(kind, loaded) ==
    IF kind = "entry" THEN loaded + 1 ELSE Max(0, loaded - 1)

\* "self.counted_ids.remove(object_id)": set.remove raises KeyError when the
\* element is not in the set
counted_remove_discard(ids, object_id) ==
    [raised |-> FALSE, ids |-> ids \ {object_id}]

counted_remove(ids, object_id) ==
    IF object_id \in ids
    THEN [raised |-> FALSE, ids |-> ids \ {object_id}]
    ELSE [raised |-> TRUE, ids |-> ids]

\* a call that ended: what is kept of it
Ended(outcome) ==
    [NoCall EXCEPT !.start = update_call.start, !.dets = update_call.dets,
                   !.rows = update_call.rows,
                   !.object_id = update_call.object_id,
                   !.reset_ran = update_call.reset_ran,
                   !.reset_at_start = update_call.reset_at_start,
                   !.outcome = outcome]

\* the call starts: lines 69-102.  An empty batch goes to the aging of every
\* track, an engine without tracks to the registration of every detection.
BeginUpdate(dets) ==
    /\ update_call.pc = "idle"
    /\ \E rows \in Orders(State, dets) :
          /\ update(State, cfg, dets, rows).st.next_object_id <= MaxIds
          /\ update_call' =
                [NoCall EXCEPT
                    !.pc = IF Len(dets) = 0 THEN "age"
                           ELSE IF Cardinality(DOMAIN objects) = 0 THEN "register"
                           ELSE "match",
                    !.start = State, !.dets = dets, !.rows = rows, !.k = 1,
                    !.reset_at_start = reset_pc,
                    !.aging = IF Len(dets) = 0
                              THEN SortedSeq(DOMAIN disappeared) ELSE <<>>]
    /\ detections' = dets
    /\ calls' = calls + 1
    /\ stats' = None
    /\ UNCHANGED <<cfg, engine, tracked, tracked_is_objects, events,
                   events_returned, reset_pc>>
    /\ UNCHANGED <<database, application, simulation>>

\* the matching loop is over: lines 142-143
EndMatching ==
    /\ update_call.pc = "match"
    /\ update_call.k > Len(update_call.rows)
    /\ update_call' =
          [update_call EXCEPT
              !.pc = "age",
              !.aging = [i \in 1..Cardinality(DOMAIN update_call.rows
                                                \ update_call.used_rows) |->
                            CallId(SortedSeq(DOMAIN update_call.rows
                                                \ update_call.used_rows)[i])]]
    /\ UNCHANGED <<cfg, engine, detections, tracked, tracked_is_objects, events,
                   calls, events_returned, stats, reset_pc>>
    /\ UNCHANGED <<database, application, simulation>>

\* one turn of the matching loop, lines 108-140, up to the load of
\* current_count in "self.current_count += 1" or in "max(0,
\* self.current_count - 1)" when an event fires
MatchPair ==
    /\ update_call.pc = "match"
    /\ update_call.k <= Len(update_call.rows)
    /\ IF \/ taken(update_call, CallRow, CallCol)
          \/ beyond_gate(CallMatrix[CallRow][CallCol])
       THEN /\ update_call' = [update_call EXCEPT !.k = @ + 1]
            /\ UNCHANGED engine
       ELSE /\ objects' = [objects EXCEPT ![CallId(CallRow)] =
                                           update_call.dets[CallCol].center]
            /\ disappeared' = [disappeared EXCEPT ![CallId(CallRow)] = 0]
            /\ previous_positions' =
                  [previous_positions EXCEPT ![CallId(CallRow)] =
                      push_position(@, objects[CallId(CallRow)])]
            /\ UNCHANGED <<next_object_id, object_sizes, counted_ids,
                           current_count>>
            /\ IF counted(State, CallId(CallRow))
               THEN /\ update_call' =
                          [update_call EXCEPT
                              !.k = @ + 1,
                              !.used_rows = @ \cup {CallRow},
                              !.used_cols = @ \cup {CallCol}]
                    /\ UNCHANGED <<entry_count, exit_count>>
               ELSE IF entry_crossed(cfg, objects[CallId(CallRow)][2],
                                     update_call.dets[CallCol].center[2])
               THEN /\ entry_count' = entry_count + 1
                    /\ exit_count' = exit_count
                    /\ update_call' =
                          [update_call EXCEPT
                              !.pc = "store", !.kind = "entry",
                              !.object_id = CallId(CallRow),
                              !.loaded = current_count]
               ELSE IF exit_crossed(cfg, objects[CallId(CallRow)][2],
                                    update_call.dets[CallCol].center[2])
               THEN /\ exit_count' = exit_count + 1
                    /\ entry_count' = entry_count
                    /\ update_call' =
                          [update_call EXCEPT
                              !.pc = "store", !.kind = "exit",
                              !.object_id = CallId(CallRow),
                              !.loaded = current_count]
               ELSE /\ update_call' =
                          [update_call EXCEPT
                              !.k = @ + 1,
                              !.used_rows = @ \cup {CallRow},
                              !.used_cols = @ \cup {CallCol}]
                    /\ UNCHANGED <<entry_count, exit_count>>
    /\ UNCHANGED <<cfg, detections, tracked, tracked_is_objects, events, calls,
                   events_returned, stats, reset_pc>>
    /\ UNCHANGED <<database, application, simulation>>

\* the store of "self.current_count += 1" (lines 281) or of
\* "self.current_count = max(0, self.current_count - 1)" (line 292)
StoreCount ==
    /\ update_call.pc = "store"
    /\ current_count' = stored_count(update_call.kind, update_call.loaded)
    /\ update_call' = [update_call EXCEPT !.pc = "add"]
    /\ UNCHANGED <<cfg, next_object_id, objects, disappeared,
                   previous_positions, object_sizes, counted_ids, entry_count,
                   exit_count, detections, tracked, tracked_is_objects, events,
                   calls, events_returned, stats, reset_pc>>
    /\ UNCHANGED <<database, application, simulation>>

\* "self.counted_ids.add(object_id)", the event with the current_count read
\* for it, and the end of the turn: lines 282-287 or 293-298, 136-140
AddCounted ==
    /\ update_call.pc = "add"
    /\ counted_ids' = counted_ids \cup {update_call.object_id}
    /\ update_call' =
          [update_call EXCEPT
              !.pc = "match",
              !.events = append_event(@, [type |-> update_call.kind,
                                          vehicle_id |-> update_call.object_id,
                                          count |-> current_count]),
              !.k = @ + 1,
              !.used_rows = @ \cup {CallRow},
              !.used_cols = @ \cup {CallCol}]
    /\ UNCHANGED <<cfg, next_object_id, objects, disappeared,
                   previous_positions, object_sizes, entry_count, exit_count,
                   current_count, detections, tracked, tracked_is_objects,
                   events, calls, events_returned, stats, reset_pc>>
    /\ UNCHANGED <<database, application, simulation>>

\* one unmatched track ages (lines 73-78 or 144-149); past max_disappeared,
\* _deregister runs up to its test "object_id in self.counted_ids"
AgeTrack ==
    /\ update_call.pc = "age"
    /\ update_call.aging # <<>>
    /\ IF disappeared[Head(update_call.aging)] + 1 > cfg.max_disappeared
       THEN /\ objects' = Remove(objects, Head(update_call.aging))
            /\ disappeared' = Remove(disappeared, Head(update_call.aging))
            /\ previous_positions' =
                  Remove(previous_positions, Head(update_call.aging))
            /\ object_sizes' = Remove(object_sizes, Head(update_call.aging))
            /\ update_call' =
                  IF Head(update_call.aging) \in counted_ids
                  THEN [update_call EXCEPT
                           !.pc = "remove",
                           !.object_id = Head(update_call.aging)]
                  ELSE [update_call EXCEPT !.aging = Tail(@)]
       ELSE /\ disappeared' =
                  [disappeared EXCEPT ![Head(update_call.aging)] = @ + 1]
            /\ update_call' = [update_call EXCEPT !.aging = Tail(@)]
            /\ UNCHANGED <<objects, previous_positions, object_sizes>>
    /\ UNCHANGED <<cfg, next_object_id, counted_ids, entry_count, exit_count,
                   current_count, detections, tracked, tracked_is_objects,
                   events, calls, events_returned, stats, reset_pc>>
    /\ UNCHANGED <<database, application, simulation>>

\* "self.counted_ids.remove(object_id)", line 174: a KeyError ends the call
RemoveCounted ==
    /\ update_call.pc = "remove"
    /\ \E r \in {counted_remove(counted_ids, update_call.object_id)} :
          /\ counted_ids' = r.ids
          /\ update_call' = IF r.raised THEN Ended("raised")
                            ELSE [update_call EXCEPT !.pc = "age",
                                                     !.aging = Tail(@)]
    /\ UNCHANGED <<cfg, next_object_id, objects, disappeared,
                   previous_positions, object_sizes, entry_count, exit_count,
                   current_count, detections, tracked, tracked_is_objects,
                   events, calls, events_returned, stats, reset_pc>>
    /\ UNCHANGED <<database, application, simulation>>

\* the aging is over: the detections no track took are registered (lines
\* 86-88 or 152-154) and the call returns (line 80 or 156)
ReturnUpdate ==
    /\ \/ update_call.pc = "register"
       \/ update_call.pc = "age" /\ update_call.aging = <<>>
    /\ \E s \in {register_all(State, update_call.dets,
                              SortedSeq(DOMAIN update_call.dets
                                            \ update_call.used_cols))} :
          /\ Install(s)
          /\ tracked' = objects_copy(s.objects).items
          /\ tracked_is_objects' = objects_copy(s.objects).is_objects
    /\ events' = update_call.events
    /\ events_returned' = events_returned + Len(update_call.events)
    /\ update_call' = Ended("returned")
    /\ UNCHANGED <<cfg, detections, calls, stats, reset_pc>>
    /\ UNCHANGED <<database, application, simulation>>

\* reset_count, "self.current_count = 0" (line 343)
ResetZero ==
    /\ reset_pc = "idle"
    /\ current_count' = 0
    /\ reset_pc' = "clear"
    /\ update_call' = IF update_call.pc = "idle" THEN update_call
                      ELSE [update_call EXCEPT !.reset_ran = TRUE]
    /\ stats' = None
    /\ UNCHANGED <<cfg, next_object_id, objects, disappeared,
                   previous_positions, object_sizes, counted_ids, entry_count,
                   exit_count, detections, tracked, tracked_is_objects, events,
                   calls, events_returned>>
    /\ UNCHANGED <<database, application, simulation>>

\* reset_count, "self.counted_ids.clear()" (line 344)
ResetClear ==
    /\ reset_pc = "clear"
    /\ counted_ids' = {}
    /\ reset_pc' = "idle"
    /\ update_call' = IF update_call.pc = "idle" THEN update_call
                      ELSE [update_call EXCEPT !.reset_ran = TRUE]
    /\ UNCHANGED <<cfg, next_object_id, objects, disappeared,
                   previous_positions, object_sizes, entry_count, exit_count,
                   current_count, detections, tracked, tracked_is_objects,
                   events, calls, events_returned, stats>>
    /\ UNCHANGED <<database, application, simulation>>

----------------------------------------------------------------------------
(* Configurations and detection batches explored *)

\* The defaults of VehicleTracker.__init__
DefaultSizeThresholdEntry == 5000
DefaultSizeThresholdExit == 2000
DefaultSizeTrendFrames == 5
DefaultSizeChangeThresholdPct == 30

LineConfig(lines, max_dis, initial) ==
    [entry_line |-> lines[1], exit_line |-> lines[2],
     max_disappeared |-> max_dis,
     tracking_mode |-> "line_crossing",
     size_threshold_entry |-> DefaultSizeThresholdEntry,
     size_threshold_exit |-> DefaultSizeThresholdExit,
     size_trend_frames |-> DefaultSizeTrendFrames,
     size_change_threshold_pct |-> DefaultSizeChangeThresholdPct,
     initial_count |-> initial]

\* entry line above the exit line (as in the tests), below it, and equal lines
StdLines == LineConfig(<<150, 350>>, 1, 1)

InvLines == LineConfig(<<160, 150>>, 0, 0)

EqLines == LineConfig(<<150, 150>>, 1, 0)

LineConfigs == {StdLines, InvLines, EqLines}

\* line-crossing detections carry a center and no area, as in test_tracker.py.
\* StdLines: both sides of the entry line and a place beyond the gate;
\* InvLines: both sides of the lines and on each line;
\* EqLines: both sides of the line in two lanes farther apart than the gate.
LineCenters(c) ==
    IF c = StdLines THEN {<<320, 100>>, <<320, 160>>, <<320, 360>>}
    ELSE IF c = InvLines THEN {<<320, 100>>, <<320, 150>>, <<320, 160>>}
    ELSE {<<320, 100>>, <<320, 160>>, <<600, 100>>, <<600, 160>>}

LineDetections(c) ==
    {[center |-> p] : p \in LineCenters(c)}

\* Perspective configurations: the defaults, whose window is 5 samples, and a
\* window of 3 samples with low thresholds
PerspConfig(entry, exit, frames, pct, max_dis, initial) ==
    [entry_line |-> 150, exit_line |-> 350,
     max_disappeared |-> max_dis,
     tracking_mode |-> "perspective_3d",
     size_threshold_entry |-> entry,
     size_threshold_exit |-> exit,
     size_trend_frames |-> frames,
     size_change_threshold_pct |-> pct,
     initial_count |-> initial]

DefaultPersp ==
    PerspConfig(DefaultSizeThresholdEntry, DefaultSizeThresholdExit,
                DefaultSizeTrendFrames, DefaultSizeChangeThresholdPct, 1, 0)

ShortPersp == PerspConfig(100, 100, 3, 7, 0, 1)

PerspConfigs == {DefaultPersp, ShortPersp}

\* perspective detections: one place, the areas of the configuration
PerspAreas(c) ==
    IF c = DefaultPersp THEN {1000, 1300, 2000, 3000, 7000}
    ELSE {93, 100, 107}

\* with the short window, also a detection that carries no area
PerspDetections(c) ==
    {[center |-> <<320, 240>>, area |-> a] : a \in PerspAreas(c)}
        \cup (IF c = DefaultPersp THEN {} ELSE {[center |-> <<320, 240>>]})

BatchesOf(alphabet, sizes) ==
    UNION {[1..n -> alphabet] : n \in sizes}

Batches(c) ==
    IF c.tracking_mode = "perspective_3d"
    THEN BatchesOf(PerspDetections(c), {0, 1})
    ELSE BatchesOf(LineDetections(c), {0, 1, 2})

\* the update calls explored
CallLimit(c) ==
    IF c.tracking_mode = "perspective_3d" THEN MaxPerspCalls ELSE MaxCalls

Init == \E c \in LineConfigs \cup PerspConfigs : Construct(c)

InitLine == \E c \in LineConfigs : Construct(c)

InitPersp == \E c \in PerspConfigs : Construct(c)

Next ==
    \/ \E dets \in Batches(cfg) : calls < CallLimit(cfg) /\ Update(dets)
    \/ ResetCount

Spec == Init /\ [][Next]_vars

SpecLine == InitLine /\ [][Next]_vars

SpecPersp == InitPersp /\ [][Next]_vars

\* One vehicle that moves across the entry line and back, for more calls:
\* at most one detection per call, on either side of the entry line
ReentryBatches ==
    BatchesOf({[center |-> <<320, 100>>], [center |-> <<320, 160>>]}, {0, 1})

InitReentry == Construct(StdLines)

NextReentry ==
    \/ \E dets \in ReentryBatches : calls < MaxReentryCalls /\ Update(dets)
    \/ ResetCount

SpecReentry == InitReentry /\ [][NextReentry]_vars

\* Places around the distance gate: (250,100) is 150 from (100,100);
\* (200,100) and (160,180) are exactly 100 from it and 89.4 from each other
GateLines == LineConfig(<<150, 350>>, 1, 0)

GateCenters == {<<100, 100>>, <<250, 100>>, <<200, 100>>, <<160, 180>>}

GateBatches == BatchesOf({[center |-> p] : p \in GateCenters}, {0, 1, 2})

InitGate == Construct(GateLines)

NextGate ==
    \/ \E dets \in GateBatches : calls < MaxCalls /\ Update(dets)
    \/ ResetCount

SpecGate == InitGate /\ [][NextGate]_vars

\* Perspective configurations outside what the documentation allows: a
\* window shorter than 3 samples and a negative value for each threshold.
\* __init__ stores whatever it is given.
OddConfigs ==
    {PerspConfig(100, 100, 2, 7, 0, 1), PerspConfig(-1, 100, 3, 7, 0, 1),
     PerspConfig(100, -1, 3, 7, 0, 1), PerspConfig(100, 100, 3, -7, 0, 1)}

InitOdd == \E c \in OddConfigs : Construct(c)

SpecOdd == InitOdd /\ [][Next]_vars

\* The three operations, on one line-crossing and one perspective engine
InitStats == \E c \in {InvLines, ShortPersp} : Construct(c)

NextStats ==
    \/ Next
    \/ GetStats

SpecStats == InitStats /\ [][NextStats]_vars

\* The engine and the frames of test_tracker.py: one detection per call, at
\* y = 200, 140, 300 or 360 (the detections carry no area)
TestLines == LineConfig(<<150, 350>>, 5, 0)

TestFrame(y) == <<[center |-> <<320, y>>]>>

TestBatches == {<<>>} \cup {TestFrame(y) : y \in {200, 140, 300, 360}}

InitTest == Construct(TestLines)

NextTest ==
    \/ \E dets \in TestBatches : calls < MaxTestCalls /\ Update(dets)
    \/ ResetCount

SpecTest == InitTest /\ [][NextTest]_vars

\* Two threads on one engine: tracks are lost after one missed call; two
\* lanes farther apart than the gate, both sides of the entry line in each
ConcLines == LineConfig(<<150, 350>>, 0, 0)

ConcCenters == {<<320, 100>>, <<320, 160>>, <<600, 100>>, <<600, 160>>}

\* at most one detection in a lane
ConcBatches ==
    {b \in BatchesOf({[center |-> p] : p \in ConcCenters}, {0, 1, 2}) :
        Len(b) = 2 => b[1].center[1] # b[2].center[1]}

InitConc == Construct(ConcLines)

NextConc ==
    \/ \E dets \in ConcBatches : calls < MaxConcCalls /\ BeginUpdate(dets)
    \/ EndMatching
    \/ MatchPair
    \/ StoreCount
    \/ AddCounted
    \/ AgeTrack
    \/ RemoveCounted
    \/ ReturnUpdate
    \/ ResetZero
    \/ ResetClear

SpecConc == InitConc /\ [][NextConc]_vars

\* The database: the capacities set are small ones of either sign and the
\* ones of the test and of the default
Capacities == (-25..40) \cup {100, 150, 999, 1000, 65536}

InitDb == Construct(StdLines)

NextDb ==
    \/ \E capacity \in Capacities : SetMaxCapacity(capacity)
    \/ GetMaxCapacity
    \/ OpenDatabase

SpecDb == InitDb /\ [][NextDb]_vars

\* One vehicle seen in every call, on one side of the entry line or the
\* other, for more calls than a position history holds; a missed call ends
\* the track
HistoryLines == LineConfig(<<150, 350>>, 0, 0)

InitHistory == Construct(HistoryLines)

NextHistory ==
    \/ \E dets \in ReentryBatches : calls < MaxHistoryCalls /\ Update(dets)
    \/ ResetCount

SpecHistory == InitHistory /\ [][NextHistory]_vars

\* One vehicle seen for more calls than either history holds, on a
\* line-crossing engine and on a perspective engine with a window of 3
InitBuffers == \E c \in {HistoryLines, ShortPersp} : Construct(c)

NextBuffers ==
    \/ \E dets \in (IF cfg = ShortPersp THEN Batches(cfg) ELSE ReentryBatches) :
          calls < MaxHistoryCalls /\ Update(dets)
    \/ ResetCount

SpecBuffers == InitBuffers /\ [][NextBuffers]_vars

\* The processing loop of the application on the engine of the tests, and
\* the reset request
NextApp ==
    \/ \E dets \in Batches(cfg) : calls < MaxCalls /\ ProcessFrame(dets)
    \/ ResetCount

SpecApp == Construct(StdLines) /\ [][NextApp]_vars

\* The database worker while running is true, and puts on its queue of an
\* entry and an exit event as update returns them.  The worker thread is
\* scheduled again and again.
NextWorker ==
    \/ \E event \in {[type |-> "entry", vehicle_id |-> 0, count |-> 1],
                     [type |-> "exit", vehicle_id |-> 1, count |-> 0]} :
          Len(enqueued) < MaxQueued /\ QueuePut(event)
    \/ WorkerGet
    \/ \E outcome \in {"returned", "raised"} : WorkerLog(outcome)

SpecWorker ==
    /\ Construct(StdLines)
    /\ [][NextWorker]_vars
    /\ WF_vars(WorkerGet)
    /\ WF_vars(\E outcome \in {"returned", "raised"} : WorkerLog(outcome))

\* The simulator left to itself: no reset_count call from outside; the
\* random draw comes out on either side of entry_probability
SpecSim ==
    Construct(StdLines) /\ [][\E below \in BOOLEAN : SimulationLoop(below)]_vars

\* update and reset_count on an engine whose caller changes the mappings it
\* gets
InitCaller == Construct(StdLines)

NextCaller ==
    \/ Next
    \/ CallerMutates

SpecCaller == InitCaller /\ [][NextCaller]_vars

----------------------------------------------------------------------------
(* What a step of a behaviour shows of the call it makes *)

\* the step is an update call
UpdateStep == calls' = calls + 1

\* the tracks the update call of this step matched to a detection: the live
\* tracks it leaves with a disappearance counter of 0 (it ages every other)
Matched == {id \in DOMAIN objects \cap DOMAIN objects' : disappeared'[id] = 0}

\* the tracks the call of this step registered
Registered == DOMAIN objects' \ DOMAIN objects

\* the places in an event list of the events of one type for one track
EventsOf(evs, id, type) ==
    {i \in DOMAIN evs : evs[i].vehicle_id = id /\ evs[i].type = type}

EventsOfType(evs, type) == {i \in DOMAIN evs : evs[i].type = type}

\* current_count right before the i-th event of the call of this step fired
CountBefore(i) == IF i = 1 THEN current_count ELSE events'[i - 1].count

\* the line-crossing conditions on two consecutive centers
EntryCrossing(old, new) == old[2] < cfg.entry_line /\ cfg.entry_line <= new[2]

ExitCrossing(old, new) == old[2] > cfg.exit_line /\ cfg.exit_line >= new[2]

\* the step is a reset_count call, a get_stats call
ResetStep == calls' = calls /\ stats' = None

GetStatsStep == stats' # None

\* the step is the caller changing the mapping it got
CallerStep == calls' = calls /\ tracked' # tracked

LineMode == cfg.tracking_mode = "line_crossing"

PerspMode == cfg.tracking_mode = "perspective_3d"

----------------------------------------------------------------------------
(* C1 *)

C1_ExitAtZero ==
    UpdateStep =>
        \A i \in DOMAIN events' :
            (events'[i].type = "exit" /\ CountBefore(i) = 0) =>
                /\ events'[i].count = 0
                /\ i = Len(events') => current_count' = 0

\* C1: with initial_count >= 0, current_count >= 0 in every reachable state,
\* whatever update and reset_count calls were made in either mode, and an
\* Exit that fires while current_count is 0 leaves it at 0.
C1_CountNeverNegative ==
    /\ [](cfg.initial_count >= 0 => current_count >= 0)
    /\ [][C1_ExitAtZero]_vars

\* an Exit has fired on an engine that started at 0 and never saw an Entry
C1_Witness ==
    /\ cfg.initial_count = 0
    /\ entry_count = 0
    /\ exit_count >= 1
    /\ current_count = 0
    /\ events # <<>>
    /\ events[Len(events)].type = "exit"

----------------------------------------------------------------------------
(* C2 *)

C2_Step ==
    UpdateStep =>
        /\ \A i \in DOMAIN events' :
              /\ events'[i].vehicle_id \in DOMAIN objects \ counted_ids
              /\ events'[i].vehicle_id \in counted_ids'
        /\ \A id \in counted_ids : id \in DOMAIN objects' => id \in counted_ids'

\* C2: a track that produced an event is counted from then on and a counted
\* track produces no event in any update call, whatever its positions or
\* areas; an update call clears the counted flag of no track that stays live
\* (only reset_count clears flags).
C2_NoSecondEvent == [][C2_Step]_vars

\* a counted track has crossed a line a second time (equal lines: down, then
\* up again) and only one event was ever returned
C2_Witness ==
    /\ LineMode
    /\ entry_count + exit_count = 1
    /\ events = <<>>
    /\ \E id \in counted_ids :
          /\ disappeared[id] = 0
          /\ Len(previous_positions[id]) = 2
          /\ EntryCrossing(previous_positions[id][1], previous_positions[id][2])
          /\ ExitCrossing(previous_positions[id][2], objects[id])

----------------------------------------------------------------------------
(* C3 *)

\* C3 as stated: in line_crossing mode every update call in which a matched
\* track's consecutive centers cross the entry (exit) line returns exactly
\* one Entry (Exit) event for that track.
C3_Original ==
    [][(UpdateStep /\ LineMode) =>
        \A id \in Matched :
            /\ EntryCrossing(objects[id], objects'[id]) =>
                  Cardinality(EventsOf(events', id, "entry")) = 1
            /\ ExitCrossing(objects[id], objects'[id]) =>
                  Cardinality(EventsOf(events', id, "exit")) = 1]_vars

\* C3 amended: the same for a track that is not counted when the call is
\* made; a counted track gets no event however it crosses.
C3_CountedOncePerTrack ==
    [][(UpdateStep /\ LineMode) =>
        \A id \in Matched :
            /\ (id \notin counted_ids /\ EntryCrossing(objects[id], objects'[id])) =>
                  Cardinality(EventsOf(events', id, "entry")) = 1
            /\ (id \notin counted_ids /\ ExitCrossing(objects[id], objects'[id])) =>
                  Cardinality(EventsOf(events', id, "exit")) = 1
            /\ id \in counted_ids =>
                  \A i \in DOMAIN events' : events'[i].vehicle_id # id]_vars

\* in one call a track that was not counted crossed the entry line and got
\* its Entry, and a counted track crossed the exit line and got nothing
C3_Witness ==
    /\ LineMode
    /\ Len(events) = 1
    /\ events[1].type = "entry"
    /\ \E e \in DOMAIN objects :
          /\ events[1].vehicle_id = e
          /\ previous_positions[e] # <<>>
          /\ EntryCrossing(previous_positions[e][Len(previous_positions[e])], objects[e])
    /\ \E id \in counted_ids :
          /\ id # events[1].vehicle_id
          /\ disappeared[id] = 0
          /\ previous_positions[id] # <<>>
          /\ ExitCrossing(previous_positions[id][Len(previous_positions[id])], objects[id])

----------------------------------------------------------------------------
(* C4 *)

C4_Step ==
    /\ Registered = next_object_id .. (next_object_id' - 1)
    /\ next_object_id' >= next_object_id
    /\ ~UpdateStep => next_object_id' = next_object_id

\* C4: the tracks a call registers get the ids next_object_id, next_object_id
\* + 1, ... in registration order, every live id is below next_object_id (so
\* a new id is greater than every id registered before and no id comes back
\* after its track was deregistered), and reset_count and an update that
\* registers nothing leave next_object_id unchanged.
C4_IdsNeverReused ==
    /\ [](\A id \in DOMAIN objects : 0 <= id /\ id < next_object_id)
    /\ [][C4_Step]_vars

\* track 0 was deregistered and, later in the same call, a track registered:
\* it is track 1, not 0 again
C4_Witness ==
    /\ cfg.max_disappeared = 0
    /\ calls = 2
    /\ next_object_id = 2
    /\ DOMAIN objects = {1}

----------------------------------------------------------------------------
(* C5 *)

C5_Step ==
    (UpdateStep /\ LineMode) =>
        /\ \A id \in Matched :
              /\ EventsOf(events', id, "entry") # {} <=>
                    (id \notin counted_ids /\ EntryCrossing(objects[id], objects'[id]))
              /\ EventsOf(events', id, "exit") # {} <=>
                    (id \notin counted_ids /\ ExitCrossing(objects[id], objects'[id]))
              /\ Cardinality({i \in DOMAIN events' : events'[i].vehicle_id = id}) <= 1
        /\ \A i \in DOMAIN events' : events'[i].vehicle_id \in Matched
        /\ entry_count' = entry_count + Cardinality(EventsOfType(events', "entry"))
        /\ exit_count' = exit_count + Cardinality(EventsOfType(events', "exit"))
        /\ events' = <<>> =>
              /\ current_count' = current_count
              /\ counted_ids' = counted_ids \cap DOMAIN objects'

----------------------------------------------------------------------------
(* C6 *)

C6_Step ==
    (UpdateStep /\ LineMode) =>
        \A id \in DOMAIN objects :
            /\ ~(EventsOf(events', id, "entry") # {} /\ EventsOf(events', id, "exit") # {})
            /\ (id \in Matched /\ id \notin counted_ids
                    /\ EntryCrossing(objects[id], objects'[id])) =>
                  /\ EventsOf(events', id, "exit") = {}
                  /\ exit_count' = exit_count + Cardinality(
                        {i \in DOMAIN events' : events'[i].type = "exit"
                                                /\ events'[i].vehicle_id # id})

\* C6: no update call returns an Entry and an Exit for the same track,
\* wherever the two lines lie; when the Entry condition holds for a track,
\* that track adds nothing to exit_count in that call.
C6_NeverBoth == [][C6_Step]_vars

\* with the entry line below the exit line in the image, a track jumped over
\* both lines in one call and got only its Entry
C6_Witness ==
    /\ LineMode
    /\ cfg.entry_line > cfg.exit_line
    /\ Len(events) = 1
    /\ events[1].type = "entry"
    /\ exit_count = 0
    /\ \E id \in DOMAIN objects :
          /\ events[1].vehicle_id = id
          /\ previous_positions[id][Len(previous_positions[id])][2] < cfg.exit_line
          /\ objects[id][2] >= cfg.entry_line

----------------------------------------------------------------------------
(* C7 *)

C7_Step ==
    UpdateStep =>
        /\ \A i \in DOMAIN events' :
              /\ events'[i].type \in {"entry", "exit"}
              /\ events'[i].type = "entry" => events'[i].count = CountBefore(i) + 1
              /\ events'[i].type = "exit" => events'[i].count = Max(0, CountBefore(i) - 1)
              /\ events'[i].vehicle_id \in counted_ids' \ counted_ids
        /\ current_count' = IF events' = <<>> THEN current_count
                            ELSE events'[Len(events')].count
        /\ entry_count' = entry_count + Cardinality(EventsOfType(events', "entry"))
        /\ exit_count' = exit_count + Cardinality(EventsOfType(events', "exit"))

\* C7: in either mode an Entry adds 1 to entry_count and to current_count and
\* leaves exit_count, an Exit adds 1 to exit_count, sets current_count to
\* max(0, current_count - 1) and leaves entry_count; the track becomes
\* counted and the event carries current_count as it is right after it, so
\* the events of one call carry the running count in the order they fired.
C7_EventEffects == [][C7_Step]_vars

\* one call returned an Entry and an Exit, each with its own running count
C7_Witness ==
    /\ Len(events) = 2
    /\ events[1].type # events[2].type
    /\ events[1].count # events[2].count
    /\ current_count = events[2].count

----------------------------------------------------------------------------
(* C8 *)

C8_Step ==
    (UpdateStep /\ LineMode /\ cfg.entry_line = 150 /\ cfg.exit_line = 350) =>
        \* frame 1: a single detection at y = 100 that is registered
        /\ (Len(detections') = 1 /\ detections'[1].center[2] = 100
                /\ Registered # {}) => events' = <<>>
        \* frame 2: the track registered by frame 1 is the only live one, no
        \* event has fired yet, and a single detection at y = 160 in its gate
        /\ \A id \in DOMAIN objects :
              (/\ DOMAIN objects = {id}
               /\ id = next_object_id - 1
               /\ previous_positions[id] = <<>> /\ disappeared[id] = 0
               /\ Len(detections) = 1 /\ detections[1].center = objects[id]
               /\ objects[id][2] = 100
               /\ entry_count = 0 /\ exit_count = 0
               /\ current_count = cfg.initial_count
               /\ Len(detections') = 1 /\ detections'[1].center[2] = 160
               /\ distance2(objects[id], detections'[1].center)
                     <= GateDistance * GateDistance) =>
                  /\ events' = <<[type |-> "entry", vehicle_id |-> id,
                                  count |-> cfg.initial_count + 1]>>
                  /\ current_count' = cfg.initial_count + 1

\* C8: with entry_line = 150 and exit_line = 350, the call that registers a
\* track from a single detection at y = 100 returns no event, and a next
\* call with a single detection at y = 160 in the gate returns exactly one
\* Entry with that track's id and leaves current_count = initial_count + 1.
C8_EntryScenario == [][C8_Step]_vars

\* the two frames were played on a new engine
C8_Witness ==
    /\ LineMode /\ cfg.entry_line = 150 /\ cfg.exit_line = 350
    /\ calls = 2
    /\ previous_positions = (0 :> <<<<320, 100>>>>)
    /\ objects = (0 :> <<320, 160>>)
    /\ events = <<[type |-> "entry", vehicle_id |-> 0, count |-> cfg.initial_count + 1]>>
    /\ current_count = cfg.initial_count + 1

----------------------------------------------------------------------------
(* C9 *)

\* the window of a track after the area of the batch's only detection is
\* appended to it
C9_Window(id) ==
    LET old == IF id \in DOMAIN object_sizes THEN object_sizes[id] ELSE <<>>
        all == Append(old, get_area(detections'[1]))
    IN  IF Len(all) > cfg.size_trend_frames THEN Tail1(all) ELSE all

C9_Step ==
    (UpdateStep /\ PerspMode /\ Len(detections') = 1) =>
        \A id \in Matched \ counted_ids :
            LET w == C9_Window(id)
                first == w[1]
                last == w[Len(w)]
                entry == EventsOf(events', id, "entry") # {}
                exit == EventsOf(events', id, "exit") # {}
            IN  /\ object_sizes'[id] = w
                /\ IF Len(w) < 3 \/ first = 0
                   THEN ~entry /\ ~exit
                   ELSE /\ entry <=>
                             /\ float_gt(percent_change(first, last),
                                         cfg.size_change_threshold_pct)
                             /\ last > cfg.size_threshold_entry
                        /\ exit <=>
                             /\ float_lt(percent_change(first, last),
                                         -cfg.size_change_threshold_pct)
                             /\ last < cfg.size_threshold_exit

\* C9: in perspective_3d mode with size_trend_frames >= 3 and thresholds >=
\* 0, a matched track that is not counted gets no event when its window,
\* after the new area is appended, has fewer than 3 samples or starts with 0;
\* otherwise, with pct the value the program computes for (last - first) /
\* first * 100, it gets an Entry iff pct > size_change_threshold_pct and last
\* > size_threshold_entry, and an Exit iff pct < -size_change_threshold_pct
\* and last < size_threshold_exit.
C9_SizeEventIff ==
    /\ [](PerspMode => /\ cfg.size_trend_frames >= 3
                       /\ cfg.size_change_threshold_pct >= 0
                       /\ cfg.size_threshold_entry >= 0
                       /\ cfg.size_threshold_exit >= 0)
    /\ [][C9_Step]_vars

\* a window of three samples that shrank from 107 to 93 gave an Exit, with
\* thresholds of 7 percent and 100
C9_Witness ==
    /\ PerspMode
    /\ cfg.size_trend_frames = 3
    /\ Len(events) = 1
    /\ events[1].type = "exit"
    /\ Len(object_sizes[events[1].vehicle_id]) = 3
    /\ object_sizes[events[1].vehicle_id][1] = 107
    /\ object_sizes[events[1].vehicle_id][3] = 93

----------------------------------------------------------------------------
(* C10 *)

C10_Areas == <<1000, 1300, 2000, 3000, 7000>>

C10_Step ==
    (/\ UpdateStep /\ PerspMode /\ Len(detections') = 1
     /\ cfg.size_threshold_entry = 5000
     /\ cfg.size_change_threshold_pct = 30
     /\ cfg.size_trend_frames = 5) =>
        \A id \in Matched :
            \A n \in 1..5 :
                (/\ (IF id \in DOMAIN object_sizes THEN object_sizes[id] ELSE <<>>)
                        = SubSeq(C10_Areas, 1, n - 1)
                 /\ get_area(detections'[1]) = C10_Areas[n]) =>
                    IF n < 5
                    THEN /\ events' = <<>>
                         /\ current_count' = current_count
                    ELSE /\ Len(events') = 1
                         /\ events'[1].type = "entry"
                         /\ events'[1].vehicle_id = id
                         /\ current_count' = current_count + 1

\* C10: with size_threshold_entry = 5000, size_change_threshold_pct = 30 and
\* size_trend_frames = 5, a track whose first five matches carry the areas
\* 1000, 1300, 2000, 3000, 7000 gets no event on the first four of them and
\* exactly one Entry on the fifth, which adds exactly 1 to current_count.
C10_GrowthScenario == [][C10_Step]_vars

\* the five matches were played and the fifth returned the Entry
C10_Witness ==
    /\ PerspMode
    /\ cfg.size_threshold_entry = 5000
    /\ cfg.size_trend_frames = 5
    /\ 0 \in DOMAIN object_sizes
    /\ object_sizes[0] = C10_Areas
    /\ Len(events) = 1
    /\ events[1].type = "entry"
    /\ events[1].vehicle_id = 0
    /\ events[1].size = 7000
    /\ current_count = cfg.initial_count + 1

----------------------------------------------------------------------------
(* C11 *)

\* C11: in perspective_3d mode every successful match appends the
\* detection's area to the track's window (dropping the oldest sample once
\* the window would exceed size_trend_frames), also when the track is
\* counted.
C11_WindowKeepsSliding ==
    [][(UpdateStep /\ PerspMode /\ Len(detections') = 1) =>
        \A id \in Matched :
            /\ id \in DOMAIN object_sizes'
            /\ object_sizes'[id] = C9_Window(id)]_vars

----------------------------------------------------------------------------
(* C12 *)

\* C12: in perspective_3d mode the call that appends an area of 0 (missing
\* or 0 in the detection) to a track's window returns no Exit for that track.
C12_ZeroAreaNeverExits ==
    [][(UpdateStep /\ PerspMode /\ Len(detections') = 1) =>
        \A id \in Matched :
            get_area(detections'[1]) = 0 => EventsOf(events', id, "exit") = {}]_vars

----------------------------------------------------------------------------
(* C13 *)

\* the configurations the documentation allows
ValidConfig(c) ==
    /\ c.size_trend_frames >= 3
    /\ c.size_threshold_entry >= 0
    /\ c.size_threshold_exit >= 0
    /\ c.size_change_threshold_pct >= 0

\* C13: construction with size_trend_frames < 3 or a negative threshold
\* fails, so no update call is ever made on an engine with such a
\* configuration.
C13_MisconfigurationRejected == ~ValidConfig(cfg) => calls = 0

----------------------------------------------------------------------------
(* C14 *)

C14_Step ==
    ResetStep =>
        /\ current_count' = 0
        /\ counted_ids' = {}
        /\ UNCHANGED <<entry_count, exit_count, objects, disappeared,
                       previous_positions, object_sizes, next_object_id>>
        /\ get_stats(State)'.current_count = 0

\* C14: reset_count sets current_count to 0, empties the counted set and
\* leaves entry_count, exit_count, the live tracks with their centers,
\* disappearance counters and histories and the next id as they were; a
\* get_stats call right after it reports current_count 0.
C14_ResetFrame == [][C14_Step]_vars

\* get_stats reported a count of 0 and one lifetime entry: a reset_count
\* came between the Entry and the get_stats call, with a track still live
C14_Witness ==
    /\ stats # None
    /\ stats.current_count = 0
    /\ stats.total_entries = 1
    /\ stats.total_exits = 0
    /\ stats.tracked_objects >= 1
    /\ counted_ids = {}

----------------------------------------------------------------------------
(* C16 *)

C16_Step ==
    GetStatsStep =>
        /\ UNCHANGED <<cfg, engine>>
        /\ stats # None => stats' = stats
        /\ stats'.current_count = current_count
        /\ stats'.total_entries = entry_count
        /\ stats'.total_exits = exit_count
        /\ stats'.tracked_objects = Cardinality(DOMAIN objects)

\* C16: get_stats changes no engine state; a get_stats call that follows
\* another with no update or reset_count between them returns the same
\* result; the result holds the three counters and the number of live
\* tracks.
C16_StatsPure == [][C16_Step]_vars

\* get_stats reported two live tracks on an engine that had registered
\* three, after an Entry
C16_Witness ==
    /\ stats # None
    /\ stats.tracked_objects = 2
    /\ next_object_id = 3
    /\ stats.total_entries = 1
    /\ stats.current_count = cfg.initial_count + 1

----------------------------------------------------------------------------
(* C15 *)

\* Track 0 is the only track there has ever been, it is live, it has fired
\* Entry (every event so far is an Entry, and there is one) and the count is
\* 0: reset_count was called after its last Entry.
C15_FiredAndReset ==
    /\ next_object_id = 1
    /\ 0 \in DOMAIN objects
    /\ entry_count >= 1
    /\ exit_count = 0
    /\ current_count = 0

C15_Step ==
    (/\ UpdateStep /\ LineMode /\ C15_FiredAndReset
     /\ 0 \in Matched
     /\ EntryCrossing(objects[0], objects'[0])) =>
        /\ events' = <<[type |-> "entry", vehicle_id |-> 0, count |-> 1]>>
        /\ entry_count' = entry_count + 1
        /\ current_count' = 1

\* C15: in line_crossing mode, after a track has fired Entry and reset_count
\* was called, a matched update in which that track, still live, again moves
\* from old_y < entry_line to new_y >= entry_line returns a second Entry with
\* the same id, adds 1 to entry_count and leaves current_count = 1.
C15_EntryAgainAfterReset == [][C15_Step]_vars

\* the same track has fired Entry twice
C15_Witness ==
    /\ LineMode
    /\ next_object_id = 1
    /\ entry_count = 2
    /\ exit_count = 0
    /\ current_count = 1
    /\ events = <<[type |-> "entry", vehicle_id |-> 0, count |-> 1]>>
    /\ counted_ids = {0}

----------------------------------------------------------------------------
(* C17 *)

C17_Step ==
    /\ entry_count' >= entry_count
    /\ exit_count' >= exit_count
    /\ IF UpdateStep
       THEN /\ entry_count' = entry_count + Cardinality(EventsOfType(events', "entry"))
            /\ exit_count' = exit_count + Cardinality(EventsOfType(events', "exit"))
            /\ Len(events') = Cardinality(EventsOfType(events', "entry"))
                                + Cardinality(EventsOfType(events', "exit"))
       ELSE UNCHANGED <<entry_count, exit_count>>

\* C17: entry_count and exit_count never decrease, whatever update and
\* reset_count calls are made; an update call adds to them the numbers of
\* Entry and Exit events it returns, so entry_count + exit_count is the
\* number of events the engine has ever returned.
C17_TotalsMonotonic ==
    /\ [](entry_count + exit_count = events_returned)
    /\ [][C17_Step]_vars

\* two events were returned and a reset_count call after them left the totals
C17_Witness ==
    /\ events_returned = 2
    /\ entry_count = 1
    /\ exit_count = 1
    /\ counted_ids = {}
    /\ Cardinality(DOMAIN objects) = 2
    /\ cfg.initial_count = 0
    /\ current_count = 0

----------------------------------------------------------------------------
(* C18 *)

\* C18 as stated: in every reachable state current_count = max(0,
\* initial_count + entry_count - exit_count).
C18_Original ==
    current_count = Max(0, cfg.initial_count + entry_count - exit_count)

\* the Exits of this step's call that fired while the count was 0
C18_Clamped ==
    {i \in DOMAIN events' : events'[i].type = "exit" /\ CountBefore(i) = 0}

C18_Step ==
    /\ UpdateStep =>
          current_count' = current_count
                             + Cardinality(EventsOfType(events', "entry"))
                             - Cardinality(EventsOfType(events', "exit"))
                             + Cardinality(C18_Clamped)
    /\ ResetStep => current_count' = 0

\* C18 amended: current_count starts at initial_count; an update call
\* changes it by the Entries it returns minus the Exits it returns, not
\* counting the Exits that fired at 0; reset_count sets it to 0.  So it stays
\* between 0 and initial_count + entry_count, and it equals initial_count +
\* entry_count - exit_count only until an Exit fires at 0 or reset_count is
\* called.
C18_CountBySteps ==
    /\ [](0 <= current_count /\ current_count <= cfg.initial_count + entry_count)
    /\ [][C18_Step]_vars

\* no reset_count since the two events (both tracks are still counted): the
\* Exit fired at 0, then the Entry, and the count is 1, not 0 + 1 - 1
C18_Witness ==
    /\ cfg.initial_count = 0
    /\ entry_count = 1
    /\ exit_count = 1
    /\ current_count = 1
    /\ Cardinality(counted_ids) = 2

----------------------------------------------------------------------------
(* C19 *)

\* every live track is farther than the gate from the only detection
C19_AllBeyond ==
    /\ Len(detections') = 1
    /\ DOMAIN objects # {}
    /\ \A id \in DOMAIN objects :
          distance2(objects[id], detections'[1].center) > GateDistance * GateDistance

C19_Step ==
    UpdateStep =>
        \* no match over a distance of more than 100
        /\ \A id \in Matched :
              distance2(objects[id], objects'[id]) <= GateDistance * GateDistance
        \* one track, one detection at 100 or less: matched
        /\ \A id \in DOMAIN objects :
              (/\ DOMAIN objects = {id}
               /\ Len(detections') = 1
               /\ distance2(objects[id], detections'[1].center)
                     <= GateDistance * GateDistance) =>
                  /\ id \in Matched
                  /\ objects'[id] = detections'[1].center
                  /\ Registered = {}
        \* nothing within the gate: the tracks age where they are (and are
        \* deregistered past max_disappeared), the detection is registered
        /\ C19_AllBeyond =>
              /\ Matched = {}
              /\ \A id \in DOMAIN objects :
                    IF disappeared[id] + 1 > cfg.max_disappeared
                    THEN id \notin DOMAIN objects'
                    ELSE /\ objects'[id] = objects[id]
                         /\ disappeared'[id] = disappeared[id] + 1
              /\ Registered = {next_object_id}
              /\ objects'[next_object_id] = detections'[1].center
              /\ \A id \in DOMAIN objects : id < next_object_id

----------------------------------------------------------------------------
(* C20 *)

C20_Step ==
    UpdateStep =>
        /\ Cardinality(Matched \cup Registered) = Len(detections')
        /\ \E f \in [Matched \cup Registered -> DOMAIN detections'] :
              /\ \A a, b \in Matched \cup Registered : a # b => f[a] # f[b]
              /\ \A id \in Matched \cup Registered :
                    objects'[id] = detections'[f[id]].center

\* C20: in one update call every detection of the batch goes to at most one
\* track and every track gets at most one detection: the tracks the call
\* matched or registered correspond one to one to the detections of the
\* batch, so two tracks are never moved onto the same detection.
C20_OneToOne == [][C20_Step]_vars

\* two live tracks were within the gate of the only detection: one was moved
\* onto it, the other aged
C20_Witness ==
    /\ Len(detections) = 1
    /\ \E a, b \in DOMAIN objects :
          /\ a # b
          /\ disappeared[a] = 0
          /\ previous_positions[a] # <<>>
          /\ objects[a] = detections[1].center
          /\ disappeared[b] = 1
          /\ objects[b] # objects[a]
          /\ distance2(objects[b], detections[1].center) <= GateDistance * GateDistance
          /\ distance2(previous_positions[a][Len(previous_positions[a])],
                       detections[1].center) <= GateDistance * GateDistance

----------------------------------------------------------------------------
(* C21 *)

\* the configured rule holds for a matched track: it is not counted and, in
\* line_crossing mode, its old and new centers satisfy the Entry or the Exit
\* condition; in perspective_3d mode its window after the new area does
C21_Rule(id) ==
    /\ id \notin counted_ids
    /\ IF LineMode
       THEN \/ EntryCrossing(objects[id], objects'[id])
            \/ ExitCrossing(objects[id], objects'[id])
       ELSE /\ Len(C9_Window(id)) >= MinSamples
            /\ C9_Window(id)[1] # 0
            /\ \/ size_entry(cfg, percent_change(C9_Window(id)[1],
                                                 C9_Window(id)[Len(C9_Window(id))]),
                              C9_Window(id)[Len(C9_Window(id))])
               \/ size_exit(cfg, percent_change(C9_Window(id)[1],
                                                C9_Window(id)[Len(C9_Window(id))]),
                             C9_Window(id)[Len(C9_Window(id))])

C21_Step ==
    UpdateStep =>
        /\ \A id \in DOMAIN objects :
              Cardinality({i \in DOMAIN events' : events'[i].vehicle_id = id})
                  = IF id \in Matched /\ C21_Rule(id) THEN 1 ELSE 0
        /\ \A i \in DOMAIN events' : events'[i].vehicle_id \in Matched
        /\ \A i, j \in DOMAIN events' :
              i # j => events'[i].vehicle_id # events'[j].vehicle_id
        /\ (Len(detections') = 0 \/ DOMAIN objects = {}) => events' = <<>>

\* C21: the event list update returns holds exactly one event for each track
\* the call matched and for which the configured rule holds, and nothing
\* else: the vehicle_ids of one list are pairwise distinct, each is a track
\* that was live before the call and matched in it, and the list is empty
\* when the batch is empty or no track was live before the call.
C21_ExactlyTheQualifying == [][C21_Step]_vars

\* one call matched two tracks that both crossed the line: two Entry events
\* with different ids
C21_Witness ==
    /\ Len(events) = 2
    /\ events[1].type = "entry" /\ events[2].type = "entry"
    /\ events[1].vehicle_id # events[2].vehicle_id
    /\ counted_ids = {events[1].vehicle_id, events[2].vehicle_id}

----------------------------------------------------------------------------
(* C22 *)

C22_Step ==
    /\ UpdateStep =>
          /\ tracked' = objects'
          /\ \A id \in Matched \cup Registered :
                /\ id \in DOMAIN tracked'
                /\ \E j \in DOMAIN detections' : tracked'[id] = detections'[j].center
          /\ \A id \in DOMAIN objects \ Matched :
                IF disappeared[id] + 1 > cfg.max_disappeared
                THEN id \notin DOMAIN tracked'
                ELSE id \in DOMAIN tracked' /\ tracked'[id] = objects[id]
          /\ DOMAIN tracked' \subseteq DOMAIN objects \cup Registered
    /\ CallerStep => UNCHANGED engine

\* C22: the mapping update returns equals the engine's live tracks after the
\* call: every track the call matched or registered is in it with the center
\* of its detection, every track it aged and kept with its old center, and
\* no track it deregistered; it is a copy: a caller changing the mapping it
\* got changes nothing of the engine.
C22_SnapshotCopy == [][C22_Step]_vars

\* the caller removed a track from the mapping it got and the engine still
\* has it
C22_Witness ==
    /\ calls > 0
    /\ ~tracked_is_objects
    /\ \E k \in DOMAIN objects : k \notin DOMAIN tracked

----------------------------------------------------------------------------
(* C23 *)

\* the batch with other areas: each detection with an area of 0 or of 7000
C23_AreaVariants(dets) ==
    {[j \in DOMAIN dets |-> [center |-> dets[j].center, area |-> a[j]]] :
     a \in [DOMAIN dets -> {0, 7000}]}

\* the configuration with other lines
C23_LineVariants(c) ==
    {[c EXCEPT !.entry_line = l[1], !.exit_line = l[2]] :
     l \in {<<240, 240>>, <<300, 200>>}}

\* the batch with other y coordinates, every other field as it is
C23_YVariants(dets) ==
    {[j \in DOMAIN dets |-> [dets[j] EXCEPT !.center = <<@[1], y[j]>>]] :
     y \in [DOMAIN dets -> {100, 240, 400}]}

\* the whole picture moved down by dy: the centers of the tracks, of their
\* histories and of the detections
C23_Moved(p, dy) == <<p[1], p[2] + dy>>

C23_MovedState(s, dy) ==
    [s EXCEPT !.objects = [id \in DOMAIN @ |-> C23_Moved(@[id], dy)],
              !.previous_positions =
                  [id \in DOMAIN @ |->
                      [k \in DOMAIN @[id] |-> C23_Moved(@[id][k], dy)]]]

C23_MovedBatch(dets, dy) ==
    [j \in DOMAIN dets |-> [dets[j] EXCEPT !.center = C23_Moved(@, dy)]]

\* the events and counters a call leaves
C23_Outcome(r) ==
    <<r.events, r.st.entry_count, r.st.exit_count, r.st.current_count>>

C23_LineStep ==
    (UpdateStep /\ LineMode) =>
        /\ object_sizes' = EmptyMap
        /\ \A rows \in Orders(State, detections') :
              \A dets2 \in C23_AreaVariants(detections') :
                  update(State, cfg, dets2, rows)
                      = update(State, cfg, detections', rows)

C23_PerspLinesStep ==
    (UpdateStep /\ PerspMode) =>
        \A rows \in Orders(State, detections') :
            \A c2 \in C23_LineVariants(cfg) :
                update(State, c2, detections', rows)
                    = update(State, cfg, detections', rows)

\* The claim as it stands: in perspective_3d mode the y coordinates of the
\* batch have no influence on the events and counters of the call.
C23_Original ==
    /\ [][cfg' = cfg]_vars
    /\ [][C23_LineStep]_vars
    /\ [][C23_PerspLinesStep]_vars
    /\ [][(UpdateStep /\ PerspMode) =>
              \A dets2 \in C23_YVariants(detections') :
                  \A rows2 \in Orders(State, dets2) :
                      C23_Outcome(update(State, cfg, dets2, rows2))
                          = <<events', entry_count', exit_count',
                              current_count'>>]_vars

C23_PerspMovedStep ==
    (UpdateStep /\ PerspMode) =>
        \A rows \in Orders(State, detections') :
            \A dy \in {-140, 160} :
                /\ C23_Outcome(update(C23_MovedState(State, dy), cfg,
                                      C23_MovedBatch(detections', dy), rows))
                      = C23_Outcome(update(State, cfg, detections', rows))
                /\ update(C23_MovedState(State, dy), cfg,
                          C23_MovedBatch(detections', dy), rows).st
                      = C23_MovedState(update(State, cfg, detections', rows).st, dy)

\* C23: the rule is chosen by tracking_mode at construction and no operation
\* changes the configuration.  In line_crossing mode no size history is ever
\* recorded and a call does the same whatever the areas of its detections.
\* In perspective_3d mode a call does the same whatever entry_line and
\* exit_line are, and the y coordinates count only through the distances
\* used for matching: with every center moved vertically by the same amount,
\* the call returns the same events and leaves the same counters.
C23_ModeSelectsRule ==
    /\ [][cfg' = cfg]_vars
    /\ [][C23_LineStep]_vars
    /\ [][C23_PerspLinesStep]_vars
    /\ [][C23_PerspMovedStep]_vars

\* a perspective engine whose lines are at 150 and 350 returned an Entry for
\* a track that stayed at y = 240
C23_Witness ==
    /\ PerspMode
    /\ Len(events) = 1
    /\ events[1].type = "entry"
    /\ objects[events[1].vehicle_id][2] = 240
    /\ \A k \in DOMAIN previous_positions[events[1].vehicle_id] :
          previous_positions[events[1].vehicle_id][k][2] = 240

----------------------------------------------------------------------------
(* C24 *)

\* the engine of the test after its frame 1: one track, registered at y = 200
C24_AfterFrame1 ==
    /\ cfg = TestLines
    /\ calls = 1
    /\ detections = TestFrame(200)
    /\ objects = (0 :> <<320, 200>>)
    /\ entry_count = 0

\* C24: with entry_line = 150 and exit_line = 350, for a track whose centers
\* in two consecutive calls are at y = 200 and y = 140, on opposite sides of
\* the entry line, the second call returns a list whose first event is an
\* Entry, and total_entries becomes 1.
C24_TestEntry ==
    [][(UpdateStep /\ C24_AfterFrame1 /\ detections' = TestFrame(140)) =>
          /\ events' # <<>>
          /\ events'[1].type = "entry"
          /\ get_stats(State)'.total_entries = 1]_vars

----------------------------------------------------------------------------
(* C25 *)

\* the engine of the test after its frames 1, 2 and 3: the track of frames
\* 1 and 2 is at y = 140 and missed frame 3, whose detection at y = 300 is
\* 160 away from it and became track 1
C25_AfterFrame3 ==
    /\ cfg = TestLines
    /\ calls = 3
    /\ detections = TestFrame(300)
    /\ objects = (0 :> <<320, 140>>) @@ (1 :> <<320, 300>>)
    /\ previous_positions = (0 :> <<<<320, 200>>>>) @@ (1 :> <<>>)
    /\ disappeared = (0 :> 1) @@ (1 :> 0)
    /\ exit_count = 0

\* C25: with entry_line = 150 and exit_line = 350, after the first two frames
\* of the test, for a vehicle detected at y = 300 and in the next call at
\* y = 360, on opposite sides of the exit line, that call returns a list
\* whose first event is an Exit, and total_exits becomes 1.
C25_TestExit ==
    [][(UpdateStep /\ C25_AfterFrame3 /\ detections' = TestFrame(360)) =>
          /\ events' # <<>>
          /\ events'[1].type = "exit"
          /\ get_stats(State)'.total_exits = 1]_vars

----------------------------------------------------------------------------
(* C26 *)

\* the update call returns, raises
C26_Returns == update_call.pc # "idle" /\ update_call'.outcome = "returned"

C26_Raises == update_call.pc # "idle" /\ update_call'.outcome = "raised"

\* what the update call leaves when it runs alone, from the state it
\* started in
C26_Alone == update(update_call.start, cfg, update_call.dets, update_call.rows)

\* and when reset_count runs first
C26_AfterReset ==
    update(reset_count(update_call.start), cfg, update_call.dets,
           update_call.rows)

C26_Step ==
    \* an update during which no statement of reset_count ran does what the
    \* call does alone
    /\ (C26_Returns /\ ~update_call.reset_ran) =>
          /\ State' = C26_Alone.st
          /\ events' = C26_Alone.events
          /\ tracked' = C26_Alone.tracked.items
    \* the count stored is the count loaded plus or minus one, whatever
    \* current_count has become; it has become something else only by a reset
    /\ (update_call.pc = "store" /\ update_call'.pc = "add") =>
          /\ current_count' = stored_count(update_call.kind, update_call.loaded)
          /\ current_count # update_call.loaded =>
                update_call.reset_ran /\ current_count = 0
    \* _deregister past its membership test fails when the id is gone
    /\ (update_call.pc = "remove" /\ update_call'.pc # "remove"
             /\ update_call.object_id \notin counted_ids) => C26_Raises
    \* update raises in no other way, and leaves the call unfinished
    /\ C26_Raises =>
          /\ update_call.reset_ran
          /\ update_call.object_id \in update_call.start.counted_ids
          /\ update_call.object_id \notin DOMAIN objects'
          /\ UNCHANGED <<tracked, events, next_object_id>>

\* C26: the engine takes no lock.  An update during which no statement of
\* reset_count runs does what the call does alone; when reset_count runs
\* between the load and the store of an increment or decrement of
\* current_count, the store overwrites the 0 of the reset; when it clears
\* counted_ids between the membership test and the remove of _deregister,
\* the remove raises KeyError and update ends there.  Both are outcomes no
\* serial order of the two calls gives.
C26_NotThreadSafe == [][C26_Step]_vars

\* one update call in which both happened, with a reset_count that started
\* after it: it raised in _deregister, and current_count is neither 0
\* (reset_count last) nor what the call leaves after a reset_count
\* (reset_count first)
C26_Witness ==
    /\ update_call.pc = "idle"
    /\ update_call.outcome = "raised"
    /\ update_call.reset_ran
    /\ update_call.reset_at_start = "idle"
    /\ reset_pc = "idle"
    /\ current_count \notin {0, C26_AfterReset.st.current_count}

----------------------------------------------------------------------------
(* C27 *)

\* C27: on a database that was just created get_max_capacity returns 100,
\* and after set_max_capacity calls it returns the argument of the last one.
C27_CapacityRoundTrip ==
    capacity_returned # None =>
        capacity_returned =
            [type |-> "returned",
             value |-> IF last_capacity_set = None THEN 100
                       ELSE last_capacity_set.capacity]

\* a capacity was set, 150 was set after it and read back, as in the test
C27_Witness ==
    /\ last_capacity_set = [type |-> "set", capacity |-> 150]
    /\ config_table["max_capacity"] = <<"1", "5", "0">>
    /\ capacity_returned = [type |-> "returned", value |-> 150]

----------------------------------------------------------------------------
(* C28 *)

C28_Step ==
    (UpdateStep /\ detections' = <<>>) =>
        /\ \A id \in DOMAIN objects :
              IF disappeared[id] + 1 > cfg.max_disappeared
              THEN id \notin DOMAIN objects'
              ELSE /\ id \in DOMAIN objects'
                   /\ disappeared'[id] = disappeared[id] + 1
                   /\ objects'[id] = objects[id]
                   /\ previous_positions'[id] = previous_positions[id]
                   /\ id \in DOMAIN object_sizes' <=> id \in DOMAIN object_sizes
                   /\ id \in DOMAIN object_sizes =>
                         object_sizes'[id] = object_sizes[id]
                   /\ id \in counted_ids' <=> id \in counted_ids
        /\ Registered = {}
        /\ events' = <<>>
        /\ UNCHANGED <<entry_count, exit_count, current_count, next_object_id>>

\* C28: update with an empty batch adds 1 to the disappearance counter of
\* every live track, deregisters exactly the tracks whose counter then
\* exceeds max_disappeared, registers nothing and returns no event; the
\* centers, histories and counted flags of the tracks that stay, the three
\* counters and the next id are as before.
C28_EmptyBatch == [][C28_Step]_vars

\* an empty batch removed a track that had already missed a call and kept
\* one that had not
C28_Witness ==
    /\ detections = <<>>
    /\ calls = 3
    /\ cfg.max_disappeared = 1
    /\ DOMAIN objects = {1}
    /\ disappeared[1] = 1
    /\ next_object_id = 2

----------------------------------------------------------------------------
(* C29 *)

C29_Step ==
    UpdateStep =>
        \A id \in DOMAIN objects :
            \* a live track has missed at most max_disappeared calls in a row
            /\ disappeared[id] <= cfg.max_disappeared
            \* it goes in the call that is its miss number max_disappeared + 1
            /\ id \notin DOMAIN objects' <=>
                  (id \notin Matched /\ disappeared[id] + 1 = cfg.max_disappeared + 1)
            \* every earlier miss is counted and leaves it live
            /\ (id \notin Matched /\ disappeared[id] < cfg.max_disappeared) =>
                  /\ id \in DOMAIN objects'
                  /\ disappeared'[id] = disappeared[id] + 1
            \* nothing is kept of a track that is gone
            /\ id \notin DOMAIN objects' =>
                  /\ id \notin DOMAIN disappeared'
                  /\ id \notin DOMAIN previous_positions'
                  /\ id \notin DOMAIN object_sizes'
                  /\ id \notin counted_ids'

\* C29: a track is deregistered exactly in the update call in which its
\* disappearance counter reaches max_disappeared + 1: it stays through
\* max_disappeared unmatched calls in a row and goes on the next one; its id
\* is then in none of the live set, the disappearance map, the position
\* history, the size history and the counted set.
C29_Deregistration == [][C29_Step]_vars

\* with max_disappeared = 1, a track that had a size history and was counted
\* missed two calls in a row and nothing is left of it
C29_Witness ==
    /\ PerspMode
    /\ cfg.max_disappeared = 1
    /\ next_object_id = 1
    /\ entry_count = 1
    /\ current_count = cfg.initial_count + 1
    /\ objects = EmptyMap
    /\ disappeared = EmptyMap
    /\ previous_positions = EmptyMap
    /\ object_sizes = EmptyMap
    /\ counted_ids = {}

----------------------------------------------------------------------------
(* C30 *)

\* the engine after lines 122-132 for a track matched to the batch's only
\* detection, before _check_event is called
C30_Moved(id) ==
    [State EXCEPT !.objects[id] = detections'[1].center,
                  !.disappeared[id] = 0,
                  !.previous_positions[id] =
                      IF Len(@) = PositionHistory
                      THEN Append(Tail1(@), objects[id])
                      ELSE Append(@, objects[id])]

C30_Step ==
    UpdateStep =>
        \A id \in Matched :
            /\ \E j \in DOMAIN detections' : objects'[id] = detections'[j].center
            /\ disappeared'[id] = 0
            /\ Len(previous_positions'[id]) <= 10
            /\ previous_positions'[id][Len(previous_positions'[id])] = objects[id]
            /\ IF Len(previous_positions[id]) < 10
               THEN previous_positions'[id] = Append(previous_positions[id], objects[id])
               ELSE previous_positions'[id] =
                        Append(Tail1(previous_positions[id]), objects[id])
            \* the event rule works on the engine as these statements left it
            /\ (DOMAIN objects = {id} /\ Len(detections') = 1) =>
                  /\ State' = check_event(C30_Moved(id), cfg, id, objects[id],
                                          detections'[1].center,
                                          get_area(detections'[1])).st
                  /\ events' = append_event(<<>>,
                                   check_event(C30_Moved(id), cfg, id, objects[id],
                                               detections'[1].center,
                                               get_area(detections'[1])).event)

\* C30: for each track an update call matches, the center becomes the
\* center of its detection, the disappearance counter 0, and the center it
\* had is appended to its position history, whose oldest element goes when
\* there would be more than 10: the history is the last (at most 10) centers
\* the track had before the current one, oldest first, and the current
\* center is not put in it; the event rule is evaluated after that.
C30_MatchedTrack == [][C30_Step]_vars

\* track 0 was matched in 11 calls in a row and its history holds 10 centers
C30_Witness ==
    /\ calls = 12
    /\ cfg.max_disappeared = 0
    /\ next_object_id = 1
    /\ DOMAIN objects = {0}
    /\ Len(previous_positions[0]) = 10

----------------------------------------------------------------------------
(* C31 *)

\* the ways to pair the tracks a call matched or registered with the
\* detections of its batch, one to one, each track with the detection whose
\* center it now has, the registered tracks in the order of their detections
C31_Assignments ==
    {f \in [Matched \cup Registered -> DOMAIN detections'] :
        /\ \A a, b \in DOMAIN f : a # b => f[a] # f[b]
        /\ \A id \in DOMAIN f : objects'[id] = detections'[f[id]].center
        /\ \A a, b \in Registered : a < b => f[a] < f[b]}

C31_Step ==
    (UpdateStep /\ detections' # <<>>) =>
        \* the del statements of _deregister find their keys
        /\ DOMAIN disappeared = DOMAIN objects
        /\ DOMAIN previous_positions = DOMAIN objects
        \* the k - m unmatched tracks age where they are
        /\ \A id \in DOMAIN objects \ Matched :
              IF disappeared[id] + 1 > cfg.max_disappeared
              THEN id \notin DOMAIN objects'
              ELSE /\ id \in DOMAIN objects'
                   /\ disappeared'[id] = disappeared[id] + 1
                   /\ objects'[id] = objects[id]
                   /\ previous_positions'[id] = previous_positions[id]
                   /\ id \in DOMAIN object_sizes' <=> id \in DOMAIN object_sizes
                   /\ id \in DOMAIN object_sizes =>
                         object_sizes'[id] = object_sizes[id]
                   /\ id \in counted_ids' <=> id \in counted_ids
        \* the n - m unmatched detections get the next n - m ids
        /\ Cardinality(Matched) <= Len(detections')
        /\ Cardinality(Matched) <= Cardinality(DOMAIN objects)
        /\ Registered =
              next_object_id ..
                  (next_object_id + Len(detections') - Cardinality(Matched) - 1)
        /\ next_object_id' =
              next_object_id + Len(detections') - Cardinality(Matched)
        /\ \A id \in Registered :
              /\ disappeared'[id] = 0
              /\ previous_positions'[id] = <<>>
              /\ id \notin DOMAIN object_sizes'
              /\ id \notin counted_ids'
        /\ C31_Assignments # {}

\* C31: an update call with a non-empty batch of n detections, on k live
\* tracks of which it matches m, adds 1 to the disappearance counter of
\* exactly the k - m unmatched tracks, whose centers, histories and counted
\* flags stay as they are, and deregisters those whose counter then exceeds
\* max_disappeared; it registers exactly the n - m unmatched detections, in
\* their order in the batch, under the next n - m consecutive ids, with a
\* disappearance counter of 0 and an empty position history; the keys the
\* call deletes are there, so it raises nothing.
C31_UnmatchedAgeAndRegister == [][C31_Step]_vars

\* two tracks and a batch of two detections at one place: track 0 was moved,
\* track 1 aged where it was, and the second detection became track 2
C31_Witness ==
    /\ calls = 2
    /\ detections = <<[center |-> <<320, 160>>], [center |-> <<320, 160>>]>>
    /\ objects = (0 :> <<320, 160>>) @@ (1 :> <<320, 360>>) @@ (2 :> <<320, 160>>)
    /\ disappeared = (0 :> 0) @@ (1 :> 1) @@ (2 :> 0)
    /\ previous_positions =
          (0 :> << <<320, 100>> >>) @@ (1 :> <<>>) @@ (2 :> <<>>)
    /\ next_object_id = 3

----------------------------------------------------------------------------
(* C32 *)

\* the squared distance from a live track to the j-th detection of the batch
\* of this step, and the track's nearest detection (the first of them when
\* several are as near)
C32_Dist(id, j) == distance2(objects[id], detections'[j].center)

C32_Nearest(id) ==
    CHOOSE j \in DOMAIN detections' :
        \A k \in DOMAIN detections' :
            /\ C32_Dist(id, j) <= C32_Dist(id, k)
            /\ C32_Dist(id, k) = C32_Dist(id, j) => j <= k

\* the tracks other than a whose nearest detection is a's nearest detection
C32_Rivals(a) ==
    {b \in DOMAIN objects \ {a} : C32_Nearest(b) = C32_Nearest(a)}

C32_Step ==
    (UpdateStep /\ detections' # <<>> /\ DOMAIN objects # {}) =>
        \* a track is only ever moved onto its nearest detection
        /\ \A id \in Matched :
              objects'[id] = detections'[C32_Nearest(id)].center
        \* the track nearest to a detection within the gate gets it; every
        \* other track that had it as nearest detection ages where it is
        /\ \A a \in DOMAIN objects :
              (/\ C32_Dist(a, C32_Nearest(a)) <= GateDistance * GateDistance
               /\ \A b \in C32_Rivals(a) :
                     C32_Dist(a, C32_Nearest(a)) < C32_Dist(b, C32_Nearest(b))) =>
                  /\ a \in Matched
                  /\ \A b \in C32_Rivals(a) :
                        /\ b \notin Matched
                        /\ IF disappeared[b] + 1 > cfg.max_disappeared
                           THEN b \notin DOMAIN objects'
                           ELSE /\ disappeared'[b] = disappeared[b] + 1
                                /\ objects'[b] = objects[b]
        \* a detection no matched track had as its nearest is registered
        /\ \A j \in DOMAIN detections' :
              (\A id \in Matched : C32_Nearest(id) # j) =>
                  \E r \in Registered : objects'[r] = detections'[j].center
        /\ Cardinality(Registered) =
              Cardinality({j \in DOMAIN detections' :
                              \A id \in Matched : C32_Nearest(id) # j})
        \* the events come in the order the tracks were processed
        /\ \A i, j \in DOMAIN events' :
              i < j =>
                  C32_Dist(events'[i].vehicle_id, C32_Nearest(events'[i].vehicle_id))
                      <= C32_Dist(events'[j].vehicle_id,
                                  C32_Nearest(events'[j].vehicle_id))

\* C32: update processes the tracks in ascending order of the distance to
\* their nearest detection and tries each track against that detection
\* only: of the tracks that have the same nearest detection, the one
\* strictly nearest to it (when within the gate) is moved onto it, and every
\* other one is left unmatched in that call and ages, also when another
\* detection of the batch that no track takes lies within the gate of it;
\* every detection that no matched track had as its nearest is registered
\* as a new track.
C32_GreedyByRow == [][C32_Step]_vars

\* tracks at (100,100) and (250,100), detections at (200,100) and (160,180):
\* both tracks were nearest to (200,100); the track at (250,100) got it, the
\* track at (100,100) aged although (160,180) was at 100 from it, and
\* (160,180) became track 2
C32_Witness ==
    /\ detections = <<[center |-> <<200, 100>>], [center |-> <<160, 180>>]>>
    /\ objects = (0 :> <<100, 100>>) @@ (1 :> <<200, 100>>) @@ (2 :> <<160, 180>>)
    /\ disappeared = (0 :> 1) @@ (1 :> 0) @@ (2 :> 0)
    /\ previous_positions =
          (0 :> <<>>) @@ (1 :> << <<250, 100>> >>) @@ (2 :> <<>>)

----------------------------------------------------------------------------
(* C33 *)

\* C33: in every reachable state the position history of each live track
\* holds at most 10 centers, and in perspective_3d mode the size history of
\* each track holds at most size_trend_frames areas, however many calls the
\* track has been matched in and whatever the detections were.
C33_HistoriesBounded ==
    /\ \A id \in DOMAIN previous_positions :
          Len(previous_positions[id]) <= PositionHistory
    /\ PerspMode =>
          \A id \in DOMAIN object_sizes :
              Len(object_sizes[id]) <= cfg.size_trend_frames

\* a track of a perspective engine with a window of 3 was matched in 11
\* calls in a row: both histories are full, and the window has slid
C33_Witness ==
    /\ PerspMode
    /\ calls = 12
    /\ next_object_id = 1
    /\ DOMAIN objects = {0}
    /\ Len(previous_positions[0]) = PositionHistory
    /\ 0 \in DOMAIN object_sizes
    /\ Len(object_sizes[0]) = cfg.size_trend_frames
    /\ 0 \notin counted_ids
    /\ object_sizes[0] = <<93, 100, 107>>

----------------------------------------------------------------------------
(* C34 *)

C34_Step ==
    UpdateStep =>
        /\ enqueued' = enqueued \o events'
        /\ event_queue' = event_queue \o events'
        /\ parking_updates' = parking_updates + Len(events')

\* C34: in the processing loop of the application every event that
\* tracker.update returns for a frame is put on event_queue once, in the
\* order returned, with a parking_update emitted for it, before the loop
\* takes the next frame: no statement between the update call and the loop
\* over the events, annotate_frame included, makes the turn skip the events.
C34_EventsQueued == [][C34_Step]_vars

----------------------------------------------------------------------------
(* C35 *)

\* the events passed to db.log_event so far, and the event the worker holds
\* between get and log_event
C35_Logged == [i \in DOMAIN log_calls |-> log_calls[i].event]

C35_Held == IF worker_pc = "log" THEN <<event_data>> ELSE <<>>

\* C35: while running is true, every event put on event_queue is eventually
\* passed to db.log_event by db_worker, once and in the order of the puts:
\* at any time the events put are the ones passed to log_event, then the one
\* the worker holds, then the ones waiting, so that an event whose log_event
\* call raised is not on the queue again and is not passed again, and the
\* events after it are passed as well.
C35_WorkerLogsEachOnce ==
    /\ [](enqueued = C35_Logged \o C35_Held \o event_queue)
    /\ \A n \in 1..MaxQueued : (Len(enqueued) >= n) ~> (Len(log_calls) >= n)

\* the log_event call for the first of three events raised; the two events
\* put after it were passed to log_event, and nothing waits
C35_Witness ==
    /\ Len(enqueued) = 3
    /\ Len(log_calls) = 3
    /\ log_calls[1].outcome = "raised"
    /\ log_calls[2].outcome = "returned"
    /\ log_calls[3].outcome = "returned"
    /\ enqueued[2] # enqueued[1]
    /\ event_queue = <<>>
    /\ worker_pc = "get"

----------------------------------------------------------------------------
(* C36 *)

\* the step is a turn of the simulation loop
C36_Turn == vehicle_id_counter' = vehicle_id_counter + 1

C36_Step ==
    C36_Turn =>
        /\ simulated_event'.vehicle_id = vehicle_id_counter
        /\ simulated_event'.count = sim_current_count'
        /\ sim_current_count = 0 => simulated_event'.type = "entry"
        /\ sim_current_count > 95 => simulated_event'.type = "exit"
        /\ simulated_event'.type = "exit" => sim_current_count > 0
        /\ sim_current_count' =
              IF simulated_event'.type = "entry"
              THEN sim_current_count + 1 ELSE sim_current_count - 1

\* C36: with no reset_count from outside, the simulator's current_count is
\* between 0 and 96 in every state its loop reaches; the event generated at
\* a count of 0 is an entry, the event generated at a count above 95 is an
\* exit, and no exit is generated at a count of 0.
C36_SimulatorCount ==
    /\ [](0 <= sim_current_count /\ sim_current_count <= 96)
    /\ [][C36_Step]_vars

\* 96 entries in a row filled the lot, and the next event was an exit
C36_Witness ==
    /\ sim_current_count = 95
    /\ vehicle_id_counter = 1097
    /\ simulated_event =
          [type |-> "exit", vehicle_id |-> 1096, count |-> 95, simulated |-> TRUE]

----------------------------------------------------------------------------
(* C37 *)

\* C37: after every update and reset_count call the maps of the engine
\* agree: objects, disappeared and previous_positions have the same keys,
\* the keys of object_sizes and the members of counted_ids are live ids,
\* and every live id is smaller than next_object_id.
C37_MapsConsistent ==
    /\ DOMAIN disappeared = DOMAIN objects
    /\ DOMAIN previous_positions = DOMAIN objects
    /\ DOMAIN object_sizes \subseteq DOMAIN objects
    /\ counted_ids \subseteq DOMAIN objects
    /\ \A id \in DOMAIN objects : id < next_object_id

\* on a perspective engine track 0 is gone and track 1, registered after
\* it, has a size history and has been counted
C37_Witness ==
    /\ PerspMode
    /\ next_object_id = 2
    /\ DOMAIN objects = {1}
    /\ DOMAIN object_sizes = {1}
    /\ counted_ids = {1}
    /\ previous_positions[1] # <<>>

----------------------------------------------------------------------------
(* C38 *)

\* the tracks the update call of this step matched, told by their position
\* history: a match appends the center the track had (the histories of this
\* exploration stay shorter than 10)
C38_Moved ==
    {id \in DOMAIN objects \cap DOMAIN objects' :
        previous_positions'[id] = Append(previous_positions[id], objects[id])}

C38_Step ==
    (UpdateStep /\ cfg.max_disappeared >= 0) =>
        \A id \in DOMAIN objects' :
            /\ disappeared'[id] = 0 <=> id \in C38_Moved \cup Registered
            \* one more call without a match
            /\ id \notin C38_Moved \cup Registered =>
                  disappeared'[id] = disappeared[id] + 1

\* C38: for max_disappeared >= 0 the disappearance counter of every live
\* track is between 0 and max_disappeared after every update call; it is 0
\* exactly for the tracks the latest call matched or registered, and every
\* call that does neither adds 1 to it: it is the number of calls in a row
\* since the track was last matched or registered.
C38_DisappearanceCounter ==
    /\ [](cfg.max_disappeared >= 0 =>
            \A id \in DOMAIN objects :
                0 <= disappeared[id] /\ disappeared[id] <= cfg.max_disappeared)
    /\ [][C38_Step]_vars

\* after two calls on two tracks, one was matched in the second call and the
\* other has missed it, which is as much as max_disappeared = 1 allows
C38_Witness ==
    /\ cfg.max_disappeared = 1
    /\ calls = 2
    /\ \E a, b \in DOMAIN objects :
          /\ disappeared[a] = 1
          /\ previous_positions[a] = <<>>
          /\ disappeared[b] = 0
          /\ Len(previous_positions[b]) = 1

----------------------------------------------------------------------------
(* C39 *)

\* the live tracks whose disappearance counter is 0
C39_Seen == {id \in DOMAIN objects : disappeared[id] = 0}

\* C39: after an update call with a non-empty batch of n detections (and
\* until the next update call) exactly n live tracks have a disappearance
\* counter of 0, and the n detections can be assigned to them one to one so
\* that each of these tracks is at the center of its detection: every
\* detection of the batch is represented by one live track, matched or new.
C39_EveryDetectionTracked ==
    detections # <<>> =>
        /\ Cardinality(C39_Seen) = Len(detections)
        /\ \E f \in [C39_Seen -> DOMAIN detections] :
              /\ \A a, b \in C39_Seen : a # b => f[a] # f[b]
              /\ \A id \in C39_Seen : objects[id] = detections[f[id]].center

\* a batch of two detections at different places on three tracks: one was
\* matched, one is new, and the third track has missed the call
C39_Witness ==
    /\ Len(detections) = 2
    /\ detections[1].center # detections[2].center
    /\ Cardinality(DOMAIN objects) = 3
    /\ Cardinality(C39_Seen) = 2
    /\ \E a, b \in C39_Seen :
          /\ previous_positions[a] # <<>>
          /\ previous_positions[b] = <<>>
          /\ objects[a] # objects[b]

----------------------------------------------------------------------------
(* C40 *)

\* the engine after k more update calls with an empty batch
RECURSIVE C40_AfterEmpty(_, _)
C40_AfterEmpty(s, k) ==
    IF k = 0 THEN s
    ELSE C40_AfterEmpty(update(s, cfg, <<>>, <<>>).st, k - 1)

\* no track is left in s, and an update call with an empty batch on s
\* returns an empty snapshot and no event and leaves s as it is
C40_Drained(s) ==
    /\ s.objects = EmptyMap
    /\ s.disappeared = EmptyMap
    /\ update(s, cfg, <<>>, <<>>).st = s
    /\ update(s, cfg, <<>>, <<>>).tracked.items = EmptyMap
    /\ update(s, cfg, <<>>, <<>>).events = <<>>
    /\ s.entry_count = entry_count
    /\ s.exit_count = exit_count
    /\ s.current_count = current_count
    /\ s.next_object_id = next_object_id

\* the update calls of a behaviour: an empty batch that follows enough empty
\* batches (none for max_disappeared = 0, one for max_disappeared = 1)
\* leaves no track, and an empty batch on an engine without tracks changes
\* nothing
C40_Step ==
    (UpdateStep /\ detections' = <<>>) =>
        /\ (\/ cfg.max_disappeared = 0
            \/ cfg.max_disappeared = 1 /\ calls > 0 /\ detections = <<>>) =>
              /\ objects' = EmptyMap
              /\ tracked' = EmptyMap
        /\ objects = EmptyMap =>
              /\ tracked' = EmptyMap
              /\ events' = <<>>
              /\ UNCHANGED engine

\* C40: once every update call carries an empty batch, no live track is
\* left after max_disappeared + 1 of these calls, from whatever state they
\* start, and every update call after them returns an empty snapshot and an
\* empty event list and leaves entry_count, exit_count, current_count and
\* the next id as they are.
C40_EmptyBatchesDrain ==
    /\ [](cfg.max_disappeared >= 0 =>
            C40_Drained(C40_AfterEmpty(State, cfg.max_disappeared + 1)))
    /\ [][C40_Step]_vars

\* two tracks were registered in one call and two calls with an empty batch
\* followed: with max_disappeared = 1 both tracks are gone
C40_Witness ==
    /\ cfg.max_disappeared = 1
    /\ calls = 3
    /\ next_object_id = 2
    /\ detections = <<>>
    /\ objects = EmptyMap
    /\ tracked = EmptyMap
    /\ events = <<>>

====
